---------------------------- MODULE Spec2Model ----------------------------
(***************************************************************************)
(* godefinfo: given an offset in a Go source file, print the package, the  *)
(* container type and the name of the definition of the identifier there.  *)
(*                                                                         *)
(* The module models, from godefinfo.go:                                   *)
(*   - pathEnclosingInterval / childrenOf: offset to path of nodes;        *)
(*   - main: the case analysis over info.Defs, info.Uses, info.Selections; *)
(*   - deepRecvType / getMethod: the walk along a selection's index path;  *)
(*   - outputData and the split of its line into defInfo's fields;         *)
(*   - makeImporter / ImportFrom: the cache of packages checked from       *)
(*     source, over the runs that -debug.repetitions asks for.             *)
(* The parser and go/types are outside the repository: the syntax tree and *)
(* the binding tables they hand to main are the data of the model.         *)
(***************************************************************************)
EXTENDS Integers, Sequences, FiniteSets, TLC

\* file: the nodes of pkgFiles[0]; info: the maps conf.Check fills and the
\* objects they hold; offset, repetitions: the flags; nodes: the path; out:
\* the result of the query; printed: the lines written; pc: where main is;
\* walk: the selection handed to deepRecvType when it is run alone.
\* importsrc: the -importsrc flag; cached: the map of the sourceImporterFrom
\* that conf.Importer holds; ret: what the last call of ImportFrom returned;
\* checks: the source-level checks the process has made, which tells the
\* package of one check from the package of another.
VARIABLES file, info, pc, offset, nodes, walk, out, repetitions, printed,
          importsrc, cached, ret, checks

vars == <<file, info, pc, offset, nodes, walk, out, repetitions, printed,
          importsrc, cached, ret, checks>>

\* The variables of the importer, and those of the query.
impVars == <<importsrc, cached, ret, checks>>
queryVars == <<file, info, offset, nodes, walk, out, printed>>

(***************************************************************************)
(* Bounds of the model.                                                    *)
(***************************************************************************)
\* Longest index path of a selection drawn for the walk.
MaxPath == 3
\* Largest index drawn at a hop of such a path.
MaxIdx == 3
\* Offsets are drawn up to this many positions past the end of the file, and
\* down to this many below zero.
MaxBeyond == 2
\* Largest value drawn for the -debug.repetitions flag.
MaxReps == 2
\* Most source-level checks of dependencies made in one process.
MaxChecks == 3

(***************************************************************************)
(* go/types types.  A type is a record tagged by k, as the type switch of  *)
(* getMethod and typeName reads it.                                        *)
(***************************************************************************)
Named(id) == [k |-> "Named", id |-> id]
Pointer(t) == [k |-> "Pointer", elem |-> t]
StructT(id) == [k |-> "Struct", id |-> id]
InterfaceT(id) == [k |-> "Interface", id |-> id]
Basic(n) == [k |-> "Basic", n |-> n]
\* A signature and its receiver: hasRecv is Recv() != nil.
Signature(hasRecv, recvType) == [k |-> "Signature", hasRecv |-> hasRecv, recv |-> recvType]
\* The nil types.Type that deepRecvType returns when getMethod finds nothing.
NilType == [k |-> "nil"]
\* Pkg() == nil: the objects of the universe scope belong to no package.
NoPkg == "<nil>"

\* The type names of the model: Obj() of each named type.  top: the name is
\* declared in the top scope of its package, so Pkg().Scope().Lookup finds it.
\* T, S, P, I, J, K, L are the types of the test file; O embeds T; F is a
\* function type; Loc and Tl are declared inside a function body (Tl is named
\* T and shadows the package's T there); error is the universe's; Client, RT,
\* RC, RF and R are imported from package a/b (RC and RF embed R).
TypeObj ==
  [ T |-> [name |-> "T", pkg |-> "p", top |-> TRUE],
    S |-> [name |-> "S", pkg |-> "p", top |-> TRUE],
    P |-> [name |-> "P", pkg |-> "p", top |-> TRUE],
    O |-> [name |-> "O", pkg |-> "p", top |-> TRUE],
    I |-> [name |-> "I", pkg |-> "p", top |-> TRUE],
    J |-> [name |-> "J", pkg |-> "p", top |-> TRUE],
    K |-> [name |-> "K", pkg |-> "p", top |-> TRUE],
    L |-> [name |-> "L", pkg |-> "p", top |-> TRUE],
    F |-> [name |-> "F", pkg |-> "p", top |-> TRUE],
    Loc |-> [name |-> "Loc", pkg |-> "p", top |-> FALSE],
    Tl |-> [name |-> "T", pkg |-> "p", top |-> FALSE],
    error |-> [name |-> "error", pkg |-> NoPkg, top |-> FALSE],
    Client |-> [name |-> "Client", pkg |-> "a/b", top |-> TRUE],
    RT |-> [name |-> "RT", pkg |-> "a/b", top |-> TRUE],
    RC |-> [name |-> "RC", pkg |-> "a/b", top |-> TRUE],
    RF |-> [name |-> "RF", pkg |-> "a/b", top |-> TRUE],
    R |-> [name |-> "R", pkg |-> "a/b", top |-> TRUE] ]

NamedIds == DOMAIN TypeObj

\* Named.Underlying().
Underlying ==
  [ T |-> StructT("T"), S |-> StructT("S"), P |-> StructT("P"), O |-> StructT("O"),
    I |-> InterfaceT("I"), J |-> InterfaceT("J"), K |-> InterfaceT("K"),
    L |-> InterfaceT("L"), F |-> Signature(FALSE, NilType),
    Loc |-> StructT("Loc"), Tl |-> StructT("Tl"), error |-> InterfaceT("error"),
    Client |-> StructT("Client"), RT |-> InterfaceT("RT"),
    RC |-> InterfaceT("RC"), RF |-> InterfaceT("RF"), R |-> InterfaceT("R") ]

Fld(name, type, embedded) == [name |-> name, type |-> type, embedded |-> embedded]

\* Struct.Field(i), i counted from 0 in Go and from 1 here.  U is the type of
\* a struct literal type that has no name.
StructFields ==
  [ T |-> << Fld("F0", Basic("int"), FALSE), Fld("S", Named("S"), TRUE),
             Fld("P", Pointer(Named("P")), TRUE), Fld("K", Named("K"), TRUE) >>,
    S |-> << Fld("F1", Basic("int"), FALSE), Fld("Fn", Signature(FALSE, NilType), FALSE) >>,
    P |-> << Fld("I", Named("I"), TRUE), Fld("F2", Basic("int"), FALSE) >>,
    O |-> << Fld("T", Named("T"), TRUE) >>,
    Loc |-> << Fld("G", Basic("int"), FALSE), Fld("S", Named("S"), TRUE) >>,
    Tl |-> << Fld("G", Basic("int"), FALSE) >>,
    Client |-> << Fld("Tr", Named("RT"), FALSE) >>,
    U |-> << Fld("A", Basic("int"), FALSE), Fld("S", Named("S"), TRUE) >> ]

\* A method: decl is the named type (or literal) whose declaration writes it.
Mth(name, decl, recvType) == [name |-> name, decl |-> decl, recv |-> recvType]

\* Interface.Method(i): the whole method set, embedded interfaces' methods
\* included, sorted by name; recv is the type of Signature.Recv(), which
\* go/types gives as the declaring interface, either its *Named (a package
\* checked from source) or its *Interface (the comparison of getMethod with
\* obj.Underlying() is for that form; the interfaces of a/b have it).  For
\* Read, which RC and RF take from the embedded R, the receiver is R's
\* *Interface in RC, and RF's own in RF: an importer that reads the method
\* set flattened builds RF's methods all alike.  V is an interface literal
\* type that has no name.
IfaceMethods ==
  [ I |-> << Mth("M11", "L", Named("L")), Mth("M12", "L", Named("L")),
             Mth("M8", "I", Named("I")), Mth("M9", "J", Named("J")) >>,
    J |-> << Mth("M9", "J", Named("J")) >>,
    K |-> << Mth("M10", "K", Named("K")) >>,
    L |-> << Mth("M11", "L", Named("L")), Mth("M12", "L", Named("L")) >>,
    error |-> << Mth("Error", "error", Named("error")) >>,
    RT |-> << Mth("RoundTrip", "RT", InterfaceT("RT")) >>,
    RC |-> << Mth("Close", "RC", InterfaceT("RC")), Mth("Read", "R", InterfaceT("R")) >>,
    RF |-> << Mth("Close", "RF", InterfaceT("RF")), Mth("Read", "R", InterfaceT("RF")) >>,
    R |-> << Mth("Read", "R", InterfaceT("R")) >>,
    V |-> << Mth("W", "V", InterfaceT("V")) >> ]

\* Named.Method(i): the methods declared with the named type as receiver.
NamedMethods ==
  [ n \in NamedIds |->
      CASE n = "T" -> << Mth("M0", "T", Named("T")), Mth("M1", "T", Pointer(Named("T"))) >>
        [] n = "S" -> << Mth("M6", "S", Named("S")) >>
        [] n = "P" -> << Mth("M7", "P", Named("P")) >>
        [] OTHER -> << >> ]

\* A Scope.Lookup that finds a type name declared in any scope of the package.
ScopeLookup_AnyScope(pkg, name) ==
  LET hit == {n \in NamedIds : TypeObj[n].pkg = pkg /\ TypeObj[n].name = name}
  IN IF hit = {} THEN "none" ELSE CHOOSE n \in hit : TRUE

\* Scope.Lookup of a type name in the top scope of package pkg: the id of the
\* named type declared there under that name, "none" when there is none.
ScopeLookup(pkg, name) ==
  LET hit == {n \in NamedIds : TypeObj[n].pkg = pkg /\ TypeObj[n].name = name /\ TypeObj[n].top}
  IN IF hit = {} THEN "none" ELSE CHOOSE n \in hit : TRUE

(***************************************************************************)
(* The results of a query.                                                 *)
(***************************************************************************)
\* outputData(data...): the words of the printed line.
Desc(words) == [kind |-> "desc", words |-> words]
\* log.Fatal: the typed failure.
Fatal(msg) == [kind |-> "fatal", msg |-> msg]
\* A run-time panic of the Go program: a crash.
PanicOut == [kind |-> "panic"]
NoOut == [kind |-> "none"]

(***************************************************************************)
(* outputData and the fields of defInfo.                                   *)
(***************************************************************************)
\* outputData(data...): fmt.Sprintln puts one space between the operands, so
\* the line is the operands' words in order.  An operand is given as the
\* sequence of its words: objectString's "%s %s" is one operand of two words.
outputData(data) == Desc(data)

\* stringToDefInfo: the line is split at the spaces; the first word is the
\* Package, and with more than two words the second is the Container and the
\* third the Name, with two the second is the Name.
stringToDefInfo(datas) ==
  [ Package |-> IF Len(datas) > 0 THEN datas[1] ELSE "",
    Container |-> IF Len(datas) > 2 THEN datas[2] ELSE "",
    Name |-> IF Len(datas) > 2 THEN datas[3]
             ELSE IF Len(datas) > 1 THEN datas[2] ELSE "" ]

\* objectString(obj) for an object of package pkg (NoPkg: Pkg() == nil).
objectString(pkg, name) == IF pkg # NoPkg THEN <<pkg, name>> ELSE <<name>>

(***************************************************************************)
(* dereferenceType, typeName, getMethod, deepRecvType.                     *)
(***************************************************************************)
\* A dereferenceType that leaves a pointer type as it is.
dereferenceType_Keep(typ) == typ

dereferenceType(typ) == IF typ.k = "Pointer" THEN typ.elem ELSE typ

\* typeName(typ): (pkg, name, ok).  For a named type it calls
\* typ.Obj().Pkg().Path(): with Pkg() == nil that dereferences a nil pointer.
typeName(typ) ==
  CASE typ.k = "Named" ->
         IF TypeObj[typ.id].pkg = NoPkg THEN [r |-> "panic"]
         ELSE [r |-> "ok", words |-> <<TypeObj[typ.id].pkg, TypeObj[typ.id].name>>]
    [] typ.k = "Basic" -> [r |-> "ok", words |-> <<"builtin", typ.n>>]
    [] OTHER -> [r |-> "no"]

\* What getMethod returns: an object (of which deepRecvType reads Type()),
\* nil, or no return at all when Field(idx) or Method(idx) is out of range.
Obj(type) == [r |-> "obj", type |-> type]
NilObj == [r |-> "nil"]
Panics == [r |-> "panic"]

\* Struct.Field(idx), Interface.Method(idx), Named.Method(idx): entry idx of
\* a Go slice, a run-time panic when idx is out of range.
InRange(seq, idx) == idx >= 0 /\ idx < Len(seq)

RECURSIVE getMethod(_, _, _, _)
getMethod(typ, idx, final, method) ==
  CASE typ.k = "Pointer" -> getMethod(typ.elem, idx, final, method)
    [] typ.k = "Named" ->
         IF final /\ method
         THEN LET obj2 == dereferenceType(Underlying[typ.id])
              IN IF obj2.k = "Interface"
                 THEN IF ~InRange(IfaceMethods[obj2.id], idx) THEN Panics
                      ELSE LET recvObj == IfaceMethods[obj2.id][idx + 1].recv
                           IN IF recvObj = Underlying[typ.id]
                              THEN Obj(Named(typ.id))
                              ELSE Obj(recvObj)
                 ELSE IF ~InRange(NamedMethods[typ.id], idx) THEN Panics
                      ELSE Obj(NamedMethods[typ.id][idx + 1].recv)
         ELSE getMethod(Underlying[typ.id], idx, final, method)
    [] typ.k = "Struct" ->
         IF ~InRange(StructFields[typ.id], idx) THEN Panics
         ELSE Obj(StructFields[typ.id][idx + 1].type)
    [] typ.k = "Interface" ->
         IF ~InRange(IfaceMethods[typ.id], idx) THEN Panics
         ELSE Obj(IfaceMethods[typ.id][idx + 1].recv)
    [] OTHER -> NilObj

\* The loop of deepRecvType over idx[:len(idx)-offset], from hop k (1-based)
\* with the type reached so far; n is len(idx)-offset.
RECURSIVE deepRecvLoop(_, _, _, _)
deepRecvLoop(sel, typ, k, n) ==
  IF k > n THEN [r |-> "type", type |-> typ]
  ELSE LET t == getMethod(typ, sel.index[k], k = n, sel.kind # "FieldVal")
       IN CASE t.r = "panic" -> Panics
            [] t.r = "nil" -> [r |-> "type", type |-> NilType]
            [] OTHER -> deepRecvLoop(sel, t.type, k + 1, n)

\* A deepRecvType that walks the whole index path for a field too.
deepRecvType_NoOffset(sel) == deepRecvLoop(sel, sel.recv, 1, Len(sel.index))

\* deepRecvType(sel): the type the method or field is defined on.
deepRecvType(sel) ==
  LET off == IF sel.kind = "MethodVal" \/ sel.kind = "MethodExpr" THEN 0 ELSE 1
  IN deepRecvLoop(sel, sel.recv, 1, Len(sel.index) - off)

\* types.LookupFieldOrMethod(T, true, pkg, name) != nil: name is a field or
\* a method of T or of a type T embeds, a pointer receiver looked through.
RECURSIVE HasMember(_, _, _)
HasMember(typ, name, depth) ==
  LET b == dereferenceType(typ)
      u == IF b.k = "Named" THEN Underlying[b.id] ELSE b
  IN \/ /\ b.k = "Named"
        /\ \E i \in 1..Len(NamedMethods[b.id]) : NamedMethods[b.id][i].name = name
     \/ /\ u.k = "Struct"
        /\ \E i \in 1..Len(StructFields[u.id]) :
             \/ StructFields[u.id][i].name = name
             \/ /\ depth > 0
                /\ StructFields[u.id][i].embedded
                /\ HasMember(StructFields[u.id][i].type, name, depth - 1)
     \/ /\ u.k = "Interface"
        /\ \E i \in 1..Len(IfaceMethods[u.id]) : IfaceMethods[u.id][i].name = name

LookupFieldOrMethod(typ, name) == HasMember(typ, name, Cardinality(NamedIds))

\* The type fallback: outputData(typeName(dereferenceType(t))), or the fatal
\* error of the branch when the type is neither named nor basic.
typeFallback(t, msg) ==
  LET tn == typeName(dereferenceType(t))
  IN CASE tn.r = "panic" -> PanicOut
       [] tn.r = "ok" -> outputData(tn.words)
       [] OTHER -> Fatal(msg)

\* main, the branch of a leaf under a selector that has a Selection: name is
\* identX.Name and objType the type of info.Uses[identX].
selectionCase(sel, name, objType) ==
  LET d == deepRecvType(sel)
  IN IF d.r = "panic" THEN PanicOut
     ELSE LET recv == dereferenceType(d.type)
          IN IF \/ recv.k # "Named"
                \/ TypeObj[recv.id].pkg = NoPkg
                \/ ScopeLookup(TypeObj[recv.id].pkg, TypeObj[recv.id].name) # recv.id
             THEN Fatal("receiver is not a top-level named type")
             ELSE IF ~LookupFieldOrMethod(sel.recv, name)
                  THEN typeFallback(objType, "method or field not found")
                  ELSE outputData(objectString(TypeObj[recv.id].pkg, TypeObj[recv.id].name)
                                    \o <<name>>)

(***************************************************************************)
(* The file of the query: what parsePackage and conf.Check hand to main.   *)
(***************************************************************************)
\* ---- the file: generated by gen_file.py ----
\* The nodes of the tree, a node's id its place in the sequence: kind is the
\* Go type of the node, [pos, end) its interval, kids its subtrees in the
\* order ast.Inspect visits them, and the other fields those of the Go node.
Node ==
  <<
    [kind |-> "Ident", pos |-> 14, end |-> 15, kids |-> <<>>, Name |-> "p", NameLen |-> 1, NamePos |-> 14],
    [kind |-> "BasicLit", pos |-> 24, end |-> 29, kids |-> <<>>, Value |-> <<"\"", "a", "/", "b", "\"">>, ValueLen |-> 5, ValuePos |-> 24],
    [kind |-> "ImportSpec", pos |-> 24, end |-> 29, kids |-> <<2>>, Path |-> 2],
    [kind |-> "GenDecl", pos |-> 17, end |-> 29, kids |-> <<3>>, Lparen |-> 0, Rparen |-> 0, TokLen |-> 6, TokPos |-> 17],
    [kind |-> "BasicLit", pos |-> 37, end |-> 39, kids |-> <<>>, Value |-> <<"\"", "c">>, ValueLen |-> 2, ValuePos |-> 37],
    [kind |-> "ImportSpec", pos |-> 37, end |-> 39, kids |-> <<5>>, Path |-> 5],
    [kind |-> "GenDecl", pos |-> 30, end |-> 39, kids |-> <<6>>, Lparen |-> 0, Rparen |-> 0, TokLen |-> 6, TokPos |-> 30],
    [kind |-> "Ident", pos |-> 46, end |-> 47, kids |-> <<>>, Name |-> "T", NameLen |-> 1, NamePos |-> 46],
    [kind |-> "Ident", pos |-> 55, end |-> 57, kids |-> <<>>, Name |-> "F0", NameLen |-> 2, NamePos |-> 55],
    [kind |-> "Ident", pos |-> 58, end |-> 61, kids |-> <<>>, Name |-> "int", NameLen |-> 3, NamePos |-> 58],
    [kind |-> "Field", pos |-> 55, end |-> 61, kids |-> <<9, 10>>],
    [kind |-> "Ident", pos |-> 63, end |-> 64, kids |-> <<>>, Name |-> "S", NameLen |-> 1, NamePos |-> 63],
    [kind |-> "Field", pos |-> 63, end |-> 64, kids |-> <<12>>],
    [kind |-> "Ident", pos |-> 67, end |-> 68, kids |-> <<>>, Name |-> "P", NameLen |-> 1, NamePos |-> 67],
    [kind |-> "StarExpr", pos |-> 66, end |-> 68, kids |-> <<14>>, Star |-> 66],
    [kind |-> "Field", pos |-> 66, end |-> 68, kids |-> <<15>>],
    [kind |-> "Ident", pos |-> 70, end |-> 71, kids |-> <<>>, Name |-> "K", NameLen |-> 1, NamePos |-> 70],
    [kind |-> "Field", pos |-> 70, end |-> 71, kids |-> <<17>>],
    [kind |-> "FieldList", pos |-> 54, end |-> 72, kids |-> <<11, 13, 16, 18>>, Closing |-> 71, Opening |-> 54],
    [kind |-> "StructType", pos |-> 48, end |-> 72, kids |-> <<19>>, Struct |-> 48],
    [kind |-> "TypeSpec", pos |-> 46, end |-> 72, kids |-> <<8, 20>>, Name |-> 8, Type |-> 20],
    [kind |-> "GenDecl", pos |-> 41, end |-> 72, kids |-> <<21>>, Lparen |-> 0, Rparen |-> 0, TokLen |-> 4, TokPos |-> 41],
    [kind |-> "Ident", pos |-> 79, end |-> 80, kids |-> <<>>, Name |-> "T", NameLen |-> 1, NamePos |-> 79],
    [kind |-> "Field", pos |-> 79, end |-> 80, kids |-> <<23>>],
    [kind |-> "FieldList", pos |-> 78, end |-> 81, kids |-> <<24>>, Closing |-> 80, Opening |-> 78],
    [kind |-> "Ident", pos |-> 82, end |-> 84, kids |-> <<>>, Name |-> "M0", NameLen |-> 2, NamePos |-> 82],
    [kind |-> "FieldList", pos |-> 84, end |-> 86, kids |-> <<>>, Closing |-> 85, Opening |-> 84],
    [kind |-> "BlockStmt", pos |-> 87, end |-> 89, kids |-> <<>>, Lbrace |-> 87, Rbrace |-> 88],
    [kind |-> "FuncDecl", pos |-> 73, end |-> 89, kids |-> <<>>, Body |-> 28, Func |-> 73, Name |-> 26, Params |-> 27, Recv |-> 25, Results |-> 0],
    [kind |-> "Ident", pos |-> 96, end |-> 97, kids |-> <<>>, Name |-> "t", NameLen |-> 1, NamePos |-> 96],
    [kind |-> "Ident", pos |-> 99, end |-> 100, kids |-> <<>>, Name |-> "T", NameLen |-> 1, NamePos |-> 99],
    [kind |-> "StarExpr", pos |-> 98, end |-> 100, kids |-> <<31>>, Star |-> 98],
    [kind |-> "Field", pos |-> 96, end |-> 100, kids |-> <<30, 32>>],
    [kind |-> "FieldList", pos |-> 95, end |-> 101, kids |-> <<33>>, Closing |-> 100, Opening |-> 95],
    [kind |-> "Ident", pos |-> 102, end |-> 104, kids |-> <<>>, Name |-> "M1", NameLen |-> 2, NamePos |-> 102],
    [kind |-> "FieldList", pos |-> 104, end |-> 106, kids |-> <<>>, Closing |-> 105, Opening |-> 104],
    [kind |-> "BlockStmt", pos |-> 107, end |-> 109, kids |-> <<>>, Lbrace |-> 107, Rbrace |-> 108],
    [kind |-> "FuncDecl", pos |-> 90, end |-> 109, kids |-> <<>>, Body |-> 37, Func |-> 90, Name |-> 35, Params |-> 36, Recv |-> 34, Results |-> 0],
    [kind |-> "Ident", pos |-> 115, end |-> 116, kids |-> <<>>, Name |-> "S", NameLen |-> 1, NamePos |-> 115],
    [kind |-> "Ident", pos |-> 124, end |-> 126, kids |-> <<>>, Name |-> "F1", NameLen |-> 2, NamePos |-> 124],
    [kind |-> "Ident", pos |-> 127, end |-> 130, kids |-> <<>>, Name |-> "int", NameLen |-> 3, NamePos |-> 127],
    [kind |-> "Field", pos |-> 124, end |-> 130, kids |-> <<40, 41>>],
    [kind |-> "Ident", pos |-> 132, end |-> 134, kids |-> <<>>, Name |-> "Fn", NameLen |-> 2, NamePos |-> 132],
    [kind |-> "FieldList", pos |-> 139, end |-> 141, kids |-> <<>>, Closing |-> 140, Opening |-> 139],
    [kind |-> "FuncType", pos |-> 135, end |-> 141, kids |-> <<44>>, Func |-> 135],
    [kind |-> "Field", pos |-> 132, end |-> 141, kids |-> <<43, 45>>],
    [kind |-> "FieldList", pos |-> 123, end |-> 142, kids |-> <<42, 46>>, Closing |-> 141, Opening |-> 123],
    [kind |-> "StructType", pos |-> 117, end |-> 142, kids |-> <<47>>, Struct |-> 117],
    [kind |-> "TypeSpec", pos |-> 115, end |-> 142, kids |-> <<39, 48>>, Name |-> 39, Type |-> 48],
    [kind |-> "GenDecl", pos |-> 110, end |-> 142, kids |-> <<49>>, Lparen |-> 0, Rparen |-> 0, TokLen |-> 4, TokPos |-> 110],
    [kind |-> "Ident", pos |-> 149, end |-> 150, kids |-> <<>>, Name |-> "S", NameLen |-> 1, NamePos |-> 149],
    [kind |-> "Field", pos |-> 149, end |-> 150, kids |-> <<51>>],
    [kind |-> "FieldList", pos |-> 148, end |-> 151, kids |-> <<52>>, Closing |-> 150, Opening |-> 148],
    [kind |-> "Ident", pos |-> 152, end |-> 154, kids |-> <<>>, Name |-> "M6", NameLen |-> 2, NamePos |-> 152],
    [kind |-> "FieldList", pos |-> 154, end |-> 156, kids |-> <<>>, Closing |-> 155, Opening |-> 154],
    [kind |-> "BlockStmt", pos |-> 157, end |-> 159, kids |-> <<>>, Lbrace |-> 157, Rbrace |-> 158],
    [kind |-> "FuncDecl", pos |-> 143, end |-> 159, kids |-> <<>>, Body |-> 56, Func |-> 143, Name |-> 54, Params |-> 55, Recv |-> 53, Results |-> 0],
    [kind |-> "Ident", pos |-> 165, end |-> 166, kids |-> <<>>, Name |-> "P", NameLen |-> 1, NamePos |-> 165],
    [kind |-> "Ident", pos |-> 174, end |-> 175, kids |-> <<>>, Name |-> "I", NameLen |-> 1, NamePos |-> 174],
    [kind |-> "Field", pos |-> 174, end |-> 175, kids |-> <<59>>],
    [kind |-> "Ident", pos |-> 177, end |-> 179, kids |-> <<>>, Name |-> "F2", NameLen |-> 2, NamePos |-> 177],
    [kind |-> "Ident", pos |-> 180, end |-> 183, kids |-> <<>>, Name |-> "int", NameLen |-> 3, NamePos |-> 180],
    [kind |-> "Field", pos |-> 177, end |-> 183, kids |-> <<61, 62>>],
    [kind |-> "FieldList", pos |-> 173, end |-> 184, kids |-> <<60, 63>>, Closing |-> 183, Opening |-> 173],
    [kind |-> "StructType", pos |-> 167, end |-> 184, kids |-> <<64>>, Struct |-> 167],
    [kind |-> "TypeSpec", pos |-> 165, end |-> 184, kids |-> <<58, 65>>, Name |-> 58, Type |-> 65],
    [kind |-> "GenDecl", pos |-> 160, end |-> 184, kids |-> <<66>>, Lparen |-> 0, Rparen |-> 0, TokLen |-> 4, TokPos |-> 160],
    [kind |-> "Ident", pos |-> 191, end |-> 192, kids |-> <<>>, Name |-> "P", NameLen |-> 1, NamePos |-> 191],
    [kind |-> "Field", pos |-> 191, end |-> 192, kids |-> <<68>>],
    [kind |-> "FieldList", pos |-> 190, end |-> 193, kids |-> <<69>>, Closing |-> 192, Opening |-> 190],
    [kind |-> "Ident", pos |-> 194, end |-> 196, kids |-> <<>>, Name |-> "M7", NameLen |-> 2, NamePos |-> 194],
    [kind |-> "FieldList", pos |-> 196, end |-> 198, kids |-> <<>>, Closing |-> 197, Opening |-> 196],
    [kind |-> "BlockStmt", pos |-> 199, end |-> 201, kids |-> <<>>, Lbrace |-> 199, Rbrace |-> 200],
    [kind |-> "FuncDecl", pos |-> 185, end |-> 201, kids |-> <<>>, Body |-> 73, Func |-> 185, Name |-> 71, Params |-> 72, Recv |-> 70, Results |-> 0],
    [kind |-> "Ident", pos |-> 207, end |-> 208, kids |-> <<>>, Name |-> "O", NameLen |-> 1, NamePos |-> 207],
    [kind |-> "Ident", pos |-> 216, end |-> 217, kids |-> <<>>, Name |-> "T", NameLen |-> 1, NamePos |-> 216],
    [kind |-> "Field", pos |-> 216, end |-> 217, kids |-> <<76>>],
    [kind |-> "FieldList", pos |-> 215, end |-> 218, kids |-> <<77>>, Closing |-> 217, Opening |-> 215],
    [kind |-> "StructType", pos |-> 209, end |-> 218, kids |-> <<78>>, Struct |-> 209],
    [kind |-> "TypeSpec", pos |-> 207, end |-> 218, kids |-> <<75, 79>>, Name |-> 75, Type |-> 79],
    [kind |-> "GenDecl", pos |-> 202, end |-> 218, kids |-> <<80>>, Lparen |-> 0, Rparen |-> 0, TokLen |-> 4, TokPos |-> 202],
    [kind |-> "Ident", pos |-> 224, end |-> 225, kids |-> <<>>, Name |-> "I", NameLen |-> 1, NamePos |-> 224],
    [kind |-> "Ident", pos |-> 236, end |-> 237, kids |-> <<>>, Name |-> "L", NameLen |-> 1, NamePos |-> 236],
    [kind |-> "Field", pos |-> 236, end |-> 237, kids |-> <<83>>],
    [kind |-> "Ident", pos |-> 239, end |-> 241, kids |-> <<>>, Name |-> "M8", NameLen |-> 2, NamePos |-> 239],
    [kind |-> "FieldList", pos |-> 241, end |-> 243, kids |-> <<>>, Closing |-> 242, Opening |-> 241],
    [kind |-> "FuncType", pos |-> 241, end |-> 243, kids |-> <<86>>, Func |-> 0],
    [kind |-> "Field", pos |-> 239, end |-> 243, kids |-> <<85, 87>>],
    [kind |-> "Ident", pos |-> 245, end |-> 246, kids |-> <<>>, Name |-> "J", NameLen |-> 1, NamePos |-> 245],
    [kind |-> "Field", pos |-> 245, end |-> 246, kids |-> <<89>>],
    [kind |-> "FieldList", pos |-> 235, end |-> 247, kids |-> <<84, 88, 90>>, Closing |-> 246, Opening |-> 235],
    [kind |-> "InterfaceType", pos |-> 226, end |-> 247, kids |-> <<91>>, Interface |-> 226],
    [kind |-> "TypeSpec", pos |-> 224, end |-> 247, kids |-> <<82, 92>>, Name |-> 82, Type |-> 92],
    [kind |-> "GenDecl", pos |-> 219, end |-> 247, kids |-> <<93>>, Lparen |-> 0, Rparen |-> 0, TokLen |-> 4, TokPos |-> 219],
    [kind |-> "Ident", pos |-> 253, end |-> 254, kids |-> <<>>, Name |-> "J", NameLen |-> 1, NamePos |-> 253],
    [kind |-> "Ident", pos |-> 265, end |-> 267, kids |-> <<>>, Name |-> "M9", NameLen |-> 2, NamePos |-> 265],
    [kind |-> "FieldList", pos |-> 267, end |-> 269, kids |-> <<>>, Closing |-> 268, Opening |-> 267],
    [kind |-> "FuncType", pos |-> 267, end |-> 269, kids |-> <<97>>, Func |-> 0],
    [kind |-> "Field", pos |-> 265, end |-> 269, kids |-> <<96, 98>>],
    [kind |-> "FieldList", pos |-> 264, end |-> 270, kids |-> <<99>>, Closing |-> 269, Opening |-> 264],
    [kind |-> "InterfaceType", pos |-> 255, end |-> 270, kids |-> <<100>>, Interface |-> 255],
    [kind |-> "TypeSpec", pos |-> 253, end |-> 270, kids |-> <<95, 101>>, Name |-> 95, Type |-> 101],
    [kind |-> "GenDecl", pos |-> 248, end |-> 270, kids |-> <<102>>, Lparen |-> 0, Rparen |-> 0, TokLen |-> 4, TokPos |-> 248],
    [kind |-> "Ident", pos |-> 276, end |-> 277, kids |-> <<>>, Name |-> "K", NameLen |-> 1, NamePos |-> 276],
    [kind |-> "Ident", pos |-> 288, end |-> 291, kids |-> <<>>, Name |-> "M10", NameLen |-> 3, NamePos |-> 288],
    [kind |-> "FieldList", pos |-> 291, end |-> 293, kids |-> <<>>, Closing |-> 292, Opening |-> 291],
    [kind |-> "FuncType", pos |-> 291, end |-> 293, kids |-> <<106>>, Func |-> 0],
    [kind |-> "Field", pos |-> 288, end |-> 293, kids |-> <<105, 107>>],
    [kind |-> "FieldList", pos |-> 287, end |-> 294, kids |-> <<108>>, Closing |-> 293, Opening |-> 287],
    [kind |-> "InterfaceType", pos |-> 278, end |-> 294, kids |-> <<109>>, Interface |-> 278],
    [kind |-> "TypeSpec", pos |-> 276, end |-> 294, kids |-> <<104, 110>>, Name |-> 104, Type |-> 110],
    [kind |-> "GenDecl", pos |-> 271, end |-> 294, kids |-> <<111>>, Lparen |-> 0, Rparen |-> 0, TokLen |-> 4, TokPos |-> 271],
    [kind |-> "Ident", pos |-> 300, end |-> 301, kids |-> <<>>, Name |-> "L", NameLen |-> 1, NamePos |-> 300],
    [kind |-> "Ident", pos |-> 312, end |-> 315, kids |-> <<>>, Name |-> "M11", NameLen |-> 3, NamePos |-> 312],
    [kind |-> "FieldList", pos |-> 315, end |-> 317, kids |-> <<>>, Closing |-> 316, Opening |-> 315],
    [kind |-> "FuncType", pos |-> 315, end |-> 317, kids |-> <<115>>, Func |-> 0],
    [kind |-> "Field", pos |-> 312, end |-> 317, kids |-> <<114, 116>>],
    [kind |-> "Ident", pos |-> 319, end |-> 322, kids |-> <<>>, Name |-> "M12", NameLen |-> 3, NamePos |-> 319],
    [kind |-> "FieldList", pos |-> 322, end |-> 324, kids |-> <<>>, Closing |-> 323, Opening |-> 322],
    [kind |-> "FuncType", pos |-> 322, end |-> 324, kids |-> <<119>>, Func |-> 0],
    [kind |-> "Field", pos |-> 319, end |-> 324, kids |-> <<118, 120>>],
    [kind |-> "FieldList", pos |-> 311, end |-> 325, kids |-> <<117, 121>>, Closing |-> 324, Opening |-> 311],
    [kind |-> "InterfaceType", pos |-> 302, end |-> 325, kids |-> <<122>>, Interface |-> 302],
    [kind |-> "TypeSpec", pos |-> 300, end |-> 325, kids |-> <<113, 123>>, Name |-> 113, Type |-> 123],
    [kind |-> "GenDecl", pos |-> 295, end |-> 325, kids |-> <<124>>, Lparen |-> 0, Rparen |-> 0, TokLen |-> 4, TokPos |-> 295],
    [kind |-> "Ident", pos |-> 331, end |-> 332, kids |-> <<>>, Name |-> "F", NameLen |-> 1, NamePos |-> 331],
    [kind |-> "Ident", pos |-> 338, end |-> 339, kids |-> <<>>, Name |-> "a", NameLen |-> 1, NamePos |-> 338],
    [kind |-> "Ident", pos |-> 340, end |-> 343, kids |-> <<>>, Name |-> "int", NameLen |-> 3, NamePos |-> 340],
    [kind |-> "Field", pos |-> 338, end |-> 343, kids |-> <<127, 128>>],
    [kind |-> "FieldList", pos |-> 337, end |-> 344, kids |-> <<129>>, Closing |-> 343, Opening |-> 337],
    [kind |-> "FuncType", pos |-> 333, end |-> 344, kids |-> <<130>>, Func |-> 333],
    [kind |-> "TypeSpec", pos |-> 331, end |-> 344, kids |-> <<126, 131>>, Name |-> 126, Type |-> 131],
    [kind |-> "GenDecl", pos |-> 326, end |-> 344, kids |-> <<132>>, Lparen |-> 0, Rparen |-> 0, TokLen |-> 4, TokPos |-> 326],
    [kind |-> "Ident", pos |-> 350, end |-> 351, kids |-> <<>>, Name |-> "f", NameLen |-> 1, NamePos |-> 350],
    [kind |-> "Ident", pos |-> 352, end |-> 353, kids |-> <<>>, Name |-> "a", NameLen |-> 1, NamePos |-> 352],
    [kind |-> "BasicLit", pos |-> 355, end |-> 356, kids |-> <<>>, Value |-> <<"2">>, ValueLen |-> 1, ValuePos |-> 355],
    [kind |-> "Ident", pos |-> 357, end |-> 360, kids |-> <<>>, Name |-> "int", NameLen |-> 3, NamePos |-> 357],
    [kind |-> "ArrayType", pos |-> 354, end |-> 360, kids |-> <<136, 137>>, Elt |-> 137, Lbrack |-> 354, Len |-> 136],
    [kind |-> "Field", pos |-> 352, end |-> 360, kids |-> <<135, 138>>],
    [kind |-> "FieldList", pos |-> 351, end |-> 361, kids |-> <<139>>, Closing |-> 360, Opening |-> 351],
    [kind |-> "Ident", pos |-> 362, end |-> 365, kids |-> <<>>, Name |-> "int", NameLen |-> 3, NamePos |-> 362],
    [kind |-> "Field", pos |-> 362, end |-> 365, kids |-> <<141>>],
    [kind |-> "FieldList", pos |-> 362, end |-> 365, kids |-> <<142>>, Closing |-> 0, Opening |-> 0],
    [kind |-> "Ident", pos |-> 375, end |-> 376, kids |-> <<>>, Name |-> "a", NameLen |-> 1, NamePos |-> 375],
    [kind |-> "BasicLit", pos |-> 377, end |-> 378, kids |-> <<>>, Value |-> <<"0">>, ValueLen |-> 1, ValuePos |-> 377],
    [kind |-> "IndexExpr", pos |-> 375, end |-> 379, kids |-> <<144, 145>>, Lbrack |-> 376, Rbrack |-> 378],
    [kind |-> "ReturnStmt", pos |-> 368, end |-> 379, kids |-> <<146>>, Return |-> 368],
    [kind |-> "BlockStmt", pos |-> 366, end |-> 381, kids |-> <<147>>, Lbrace |-> 366, Rbrace |-> 380],
    [kind |-> "FuncDecl", pos |-> 345, end |-> 381, kids |-> <<>>, Body |-> 148, Func |-> 345, Name |-> 134, Params |-> 140, Recv |-> 0, Results |-> 143],
    [kind |-> "Ident", pos |-> 388, end |-> 391, kids |-> <<>>, Name |-> "run", NameLen |-> 3, NamePos |-> 388],
    [kind |-> "FieldList", pos |-> 391, end |-> 393, kids |-> <<>>, Closing |-> 392, Opening |-> 391],
    [kind |-> "Ident", pos |-> 399, end |-> 400, kids |-> <<>>, Name |-> "T", NameLen |-> 1, NamePos |-> 399],
    [kind |-> "CompositeLit", pos |-> 399, end |-> 402, kids |-> <<152>>, Lbrace |-> 400, Rbrace |-> 401, Type |-> 152],
    [kind |-> "UnaryExpr", pos |-> 398, end |-> 402, kids |-> <<153>>, OpLen |-> 1, OpPos |-> 398],
    [kind |-> "ParenExpr", pos |-> 397, end |-> 403, kids |-> <<154>>, Lparen |-> 397, Rparen |-> 402],
    [kind |-> "Ident", pos |-> 404, end |-> 406, kids |-> <<>>, Name |-> "F1", NameLen |-> 2, NamePos |-> 404],
    [kind |-> "SelectorExpr", pos |-> 397, end |-> 406, kids |-> <<155, 156>>, Sel |-> 156],
    [kind |-> "ExprStmt", pos |-> 397, end |-> 406, kids |-> <<157>>],
    [kind |-> "Ident", pos |-> 409, end |-> 410, kids |-> <<>>, Name |-> "T", NameLen |-> 1, NamePos |-> 409],
    [kind |-> "CompositeLit", pos |-> 409, end |-> 412, kids |-> <<159>>, Lbrace |-> 410, Rbrace |-> 411, Type |-> 159],
    [kind |-> "ParenExpr", pos |-> 408, end |-> 413, kids |-> <<160>>, Lparen |-> 408, Rparen |-> 412],
    [kind |-> "Ident", pos |-> 414, end |-> 416, kids |-> <<>>, Name |-> "F1", NameLen |-> 2, NamePos |-> 414],
    [kind |-> "SelectorExpr", pos |-> 408, end |-> 416, kids |-> <<161, 162>>, Sel |-> 162],
    [kind |-> "ExprStmt", pos |-> 408, end |-> 416, kids |-> <<163>>],
    [kind |-> "Ident", pos |-> 420, end |-> 421, kids |-> <<>>, Name |-> "T", NameLen |-> 1, NamePos |-> 420],
    [kind |-> "CompositeLit", pos |-> 420, end |-> 423, kids |-> <<165>>, Lbrace |-> 421, Rbrace |-> 422, Type |-> 165],
    [kind |-> "UnaryExpr", pos |-> 419, end |-> 423, kids |-> <<166>>, OpLen |-> 1, OpPos |-> 419],
    [kind |-> "ParenExpr", pos |-> 418, end |-> 424, kids |-> <<167>>, Lparen |-> 418, Rparen |-> 423],
    [kind |-> "Ident", pos |-> 425, end |-> 427, kids |-> <<>>, Name |-> "F0", NameLen |-> 2, NamePos |-> 425],
    [kind |-> "SelectorExpr", pos |-> 418, end |-> 427, kids |-> <<168, 169>>, Sel |-> 169],
    [kind |-> "ExprStmt", pos |-> 418, end |-> 427, kids |-> <<170>>],
    [kind |-> "Ident", pos |-> 429, end |-> 430, kids |-> <<>>, Name |-> "O", NameLen |-> 1, NamePos |-> 429],
    [kind |-> "CompositeLit", pos |-> 429, end |-> 432, kids |-> <<172>>, Lbrace |-> 430, Rbrace |-> 431, Type |-> 172],
    [kind |-> "Ident", pos |-> 433, end |-> 435, kids |-> <<>>, Name |-> "F2", NameLen |-> 2, NamePos |-> 433],
    [kind |-> "SelectorExpr", pos |-> 429, end |-> 435, kids |-> <<173, 174>>, Sel |-> 174],
    [kind |-> "ExprStmt", pos |-> 429, end |-> 435, kids |-> <<175>>],
    [kind |-> "Ident", pos |-> 439, end |-> 440, kids |-> <<>>, Name |-> "T", NameLen |-> 1, NamePos |-> 439],
    [kind |-> "CompositeLit", pos |-> 439, end |-> 442, kids |-> <<177>>, Lbrace |-> 440, Rbrace |-> 441, Type |-> 177],
    [kind |-> "UnaryExpr", pos |-> 438, end |-> 442, kids |-> <<178>>, OpLen |-> 1, OpPos |-> 438],
    [kind |-> "ParenExpr", pos |-> 437, end |-> 443, kids |-> <<179>>, Lparen |-> 437, Rparen |-> 442],
    [kind |-> "Ident", pos |-> 444, end |-> 446, kids |-> <<>>, Name |-> "M1", NameLen |-> 2, NamePos |-> 444],
    [kind |-> "SelectorExpr", pos |-> 437, end |-> 446, kids |-> <<180, 181>>, Sel |-> 181],
    [kind |-> "ExprStmt", pos |-> 437, end |-> 446, kids |-> <<182>>],
    [kind |-> "Ident", pos |-> 450, end |-> 451, kids |-> <<>>, Name |-> "T", NameLen |-> 1, NamePos |-> 450],
    [kind |-> "CompositeLit", pos |-> 450, end |-> 453, kids |-> <<184>>, Lbrace |-> 451, Rbrace |-> 452, Type |-> 184],
    [kind |-> "UnaryExpr", pos |-> 449, end |-> 453, kids |-> <<185>>, OpLen |-> 1, OpPos |-> 449],
    [kind |-> "ParenExpr", pos |-> 448, end |-> 454, kids |-> <<186>>, Lparen |-> 448, Rparen |-> 453],
    [kind |-> "Ident", pos |-> 455, end |-> 458, kids |-> <<>>, Name |-> "M11", NameLen |-> 3, NamePos |-> 455],
    [kind |-> "SelectorExpr", pos |-> 448, end |-> 458, kids |-> <<187, 188>>, Sel |-> 188],
    [kind |-> "ExprStmt", pos |-> 448, end |-> 458, kids |-> <<189>>],
    [kind |-> "Ident", pos |-> 460, end |-> 461, kids |-> <<>>, Name |-> "I", NameLen |-> 1, NamePos |-> 460],
    [kind |-> "Ident", pos |-> 462, end |-> 465, kids |-> <<>>, Name |-> "nil", NameLen |-> 3, NamePos |-> 462],
    [kind |-> "CallExpr", pos |-> 460, end |-> 466, kids |-> <<191, 192>>, Ellipsis |-> 0, Fun |-> 191, Lparen |-> 461, Rparen |-> 465],
    [kind |-> "Ident", pos |-> 467, end |-> 470, kids |-> <<>>, Name |-> "M11", NameLen |-> 3, NamePos |-> 467],
    [kind |-> "SelectorExpr", pos |-> 460, end |-> 470, kids |-> <<193, 194>>, Sel |-> 194],
    [kind |-> "ExprStmt", pos |-> 460, end |-> 470, kids |-> <<195>>],
    [kind |-> "Ident", pos |-> 472, end |-> 473, kids |-> <<>>, Name |-> "L", NameLen |-> 1, NamePos |-> 472],
    [kind |-> "Ident", pos |-> 474, end |-> 477, kids |-> <<>>, Name |-> "nil", NameLen |-> 3, NamePos |-> 474],
    [kind |-> "CallExpr", pos |-> 472, end |-> 478, kids |-> <<197, 198>>, Ellipsis |-> 0, Fun |-> 197, Lparen |-> 473, Rparen |-> 477],
    [kind |-> "Ident", pos |-> 479, end |-> 482, kids |-> <<>>, Name |-> "M11", NameLen |-> 3, NamePos |-> 479],
    [kind |-> "SelectorExpr", pos |-> 472, end |-> 482, kids |-> <<199, 200>>, Sel |-> 200],
    [kind |-> "ExprStmt", pos |-> 472, end |-> 482, kids |-> <<201>>],
    [kind |-> "Ident", pos |-> 484, end |-> 489, kids |-> <<>>, Name |-> "error", NameLen |-> 5, NamePos |-> 484],
    [kind |-> "ExprStmt", pos |-> 484, end |-> 489, kids |-> <<203>>],
    [kind |-> "Ident", pos |-> 491, end |-> 496, kids |-> <<>>, Name |-> "error", NameLen |-> 5, NamePos |-> 491],
    [kind |-> "Ident", pos |-> 497, end |-> 502, kids |-> <<>>, Name |-> "Error", NameLen |-> 5, NamePos |-> 497],
    [kind |-> "SelectorExpr", pos |-> 491, end |-> 502, kids |-> <<205, 206>>, Sel |-> 206],
    [kind |-> "ExprStmt", pos |-> 491, end |-> 502, kids |-> <<207>>],
    [kind |-> "Ident", pos |-> 504, end |-> 509, kids |-> <<>>, Name |-> "print", NameLen |-> 5, NamePos |-> 504],
    [kind |-> "Ident", pos |-> 510, end |-> 511, kids |-> <<>>, Name |-> "M", NameLen |-> 1, NamePos |-> 510],
    [kind |-> "CallExpr", pos |-> 504, end |-> 512, kids |-> <<209, 210>>, Ellipsis |-> 0, Fun |-> 209, Lparen |-> 509, Rparen |-> 511],
    [kind |-> "ExprStmt", pos |-> 504, end |-> 512, kids |-> <<211>>],
    [kind |-> "Ident", pos |-> 514, end |-> 515, kids |-> <<>>, Name |-> "b", NameLen |-> 1, NamePos |-> 514],
    [kind |-> "ExprStmt", pos |-> 514, end |-> 515, kids |-> <<213>>],
    [kind |-> "Ident", pos |-> 517, end |-> 518, kids |-> <<>>, Name |-> "b", NameLen |-> 1, NamePos |-> 517],
    [kind |-> "Ident", pos |-> 519, end |-> 520, kids |-> <<>>, Name |-> "X", NameLen |-> 1, NamePos |-> 519],
    [kind |-> "SelectorExpr", pos |-> 517, end |-> 520, kids |-> <<215, 216>>, Sel |-> 216],
    [kind |-> "Ident", pos |-> 521, end |-> 525, kids |-> <<>>, Name |-> "Read", NameLen |-> 4, NamePos |-> 521],
    [kind |-> "SelectorExpr", pos |-> 517, end |-> 525, kids |-> <<217, 218>>, Sel |-> 218],
    [kind |-> "ExprStmt", pos |-> 517, end |-> 525, kids |-> <<219>>],
    [kind |-> "Ident", pos |-> 527, end |-> 528, kids |-> <<>>, Name |-> "b", NameLen |-> 1, NamePos |-> 527],
    [kind |-> "Ident", pos |-> 529, end |-> 530, kids |-> <<>>, Name |-> "Y", NameLen |-> 1, NamePos |-> 529],
    [kind |-> "SelectorExpr", pos |-> 527, end |-> 530, kids |-> <<221, 222>>, Sel |-> 222],
    [kind |-> "Ident", pos |-> 531, end |-> 535, kids |-> <<>>, Name |-> "Read", NameLen |-> 4, NamePos |-> 531],
    [kind |-> "SelectorExpr", pos |-> 527, end |-> 535, kids |-> <<223, 224>>, Sel |-> 224],
    [kind |-> "ExprStmt", pos |-> 527, end |-> 535, kids |-> <<225>>],
    [kind |-> "Ident", pos |-> 537, end |-> 538, kids |-> <<>>, Name |-> "b", NameLen |-> 1, NamePos |-> 537],
    [kind |-> "Ident", pos |-> 539, end |-> 540, kids |-> <<>>, Name |-> "C", NameLen |-> 1, NamePos |-> 539],
    [kind |-> "SelectorExpr", pos |-> 537, end |-> 540, kids |-> <<227, 228>>, Sel |-> 228],
    [kind |-> "Ident", pos |-> 541, end |-> 543, kids |-> <<>>, Name |-> "Tr", NameLen |-> 2, NamePos |-> 541],
    [kind |-> "SelectorExpr", pos |-> 537, end |-> 543, kids |-> <<229, 230>>, Sel |-> 230],
    [kind |-> "ExprStmt", pos |-> 537, end |-> 543, kids |-> <<231>>],
    [kind |-> "Ident", pos |-> 549, end |-> 550, kids |-> <<>>, Name |-> "e", NameLen |-> 1, NamePos |-> 549],
    [kind |-> "Ident", pos |-> 551, end |-> 556, kids |-> <<>>, Name |-> "error", NameLen |-> 5, NamePos |-> 551],
    [kind |-> "ValueSpec", pos |-> 549, end |-> 556, kids |-> <<233, 234>>],
    [kind |-> "GenDecl", pos |-> 545, end |-> 556, kids |-> <<235>>, Lparen |-> 0, Rparen |-> 0, TokLen |-> 3, TokPos |-> 545],
    [kind |-> "DeclStmt", pos |-> 545, end |-> 556, kids |-> <<236>>],
    [kind |-> "Ident", pos |-> 562, end |-> 563, kids |-> <<>>, Name |-> "w", NameLen |-> 1, NamePos |-> 562],
    [kind |-> "Ident", pos |-> 574, end |-> 575, kids |-> <<>>, Name |-> "W", NameLen |-> 1, NamePos |-> 574],
    [kind |-> "FieldList", pos |-> 575, end |-> 577, kids |-> <<>>, Closing |-> 576, Opening |-> 575],
    [kind |-> "FuncType", pos |-> 575, end |-> 577, kids |-> <<240>>, Func |-> 0],
    [kind |-> "Field", pos |-> 574, end |-> 577, kids |-> <<239, 241>>],
    [kind |-> "FieldList", pos |-> 573, end |-> 578, kids |-> <<242>>, Closing |-> 577, Opening |-> 573],
    [kind |-> "InterfaceType", pos |-> 564, end |-> 578, kids |-> <<243>>, Interface |-> 564],
    [kind |-> "ValueSpec", pos |-> 562, end |-> 578, kids |-> <<238, 244>>],
    [kind |-> "GenDecl", pos |-> 558, end |-> 578, kids |-> <<245>>, Lparen |-> 0, Rparen |-> 0, TokLen |-> 3, TokPos |-> 558],
    [kind |-> "DeclStmt", pos |-> 558, end |-> 578, kids |-> <<246>>],
    [kind |-> "Ident", pos |-> 584, end |-> 585, kids |-> <<>>, Name |-> "g", NameLen |-> 1, NamePos |-> 584],
    [kind |-> "FieldList", pos |-> 590, end |-> 592, kids |-> <<>>, Closing |-> 591, Opening |-> 590],
    [kind |-> "FuncType", pos |-> 586, end |-> 592, kids |-> <<249>>, Func |-> 586],
    [kind |-> "ValueSpec", pos |-> 584, end |-> 592, kids |-> <<248, 250>>],
    [kind |-> "GenDecl", pos |-> 580, end |-> 592, kids |-> <<251>>, Lparen |-> 0, Rparen |-> 0, TokLen |-> 3, TokPos |-> 580],
    [kind |-> "DeclStmt", pos |-> 580, end |-> 592, kids |-> <<252>>],
    [kind |-> "Ident", pos |-> 599, end |-> 602, kids |-> <<>>, Name |-> "Loc", NameLen |-> 3, NamePos |-> 599],
    [kind |-> "Ident", pos |-> 610, end |-> 611, kids |-> <<>>, Name |-> "G", NameLen |-> 1, NamePos |-> 610],
    [kind |-> "Ident", pos |-> 612, end |-> 615, kids |-> <<>>, Name |-> "int", NameLen |-> 3, NamePos |-> 612],
    [kind |-> "Field", pos |-> 610, end |-> 615, kids |-> <<255, 256>>],
    [kind |-> "Ident", pos |-> 617, end |-> 618, kids |-> <<>>, Name |-> "S", NameLen |-> 1, NamePos |-> 617],
    [kind |-> "Field", pos |-> 617, end |-> 618, kids |-> <<258>>],
    [kind |-> "FieldList", pos |-> 609, end |-> 619, kids |-> <<257, 259>>, Closing |-> 618, Opening |-> 609],
    [kind |-> "StructType", pos |-> 603, end |-> 619, kids |-> <<260>>, Struct |-> 603],
    [kind |-> "TypeSpec", pos |-> 599, end |-> 619, kids |-> <<254, 261>>, Name |-> 254, Type |-> 261],
    [kind |-> "GenDecl", pos |-> 594, end |-> 619, kids |-> <<262>>, Lparen |-> 0, Rparen |-> 0, TokLen |-> 4, TokPos |-> 594],
    [kind |-> "DeclStmt", pos |-> 594, end |-> 619, kids |-> <<263>>],
    [kind |-> "Ident", pos |-> 621, end |-> 624, kids |-> <<>>, Name |-> "Loc", NameLen |-> 3, NamePos |-> 621],
    [kind |-> "CompositeLit", pos |-> 621, end |-> 626, kids |-> <<265>>, Lbrace |-> 624, Rbrace |-> 625, Type |-> 265],
    [kind |-> "Ident", pos |-> 627, end |-> 628, kids |-> <<>>, Name |-> "G", NameLen |-> 1, NamePos |-> 627],
    [kind |-> "SelectorExpr", pos |-> 621, end |-> 628, kids |-> <<266, 267>>, Sel |-> 267],
    [kind |-> "ExprStmt", pos |-> 621, end |-> 628, kids |-> <<268>>],
    [kind |-> "Ident", pos |-> 630, end |-> 633, kids |-> <<>>, Name |-> "Loc", NameLen |-> 3, NamePos |-> 630],
    [kind |-> "CompositeLit", pos |-> 630, end |-> 635, kids |-> <<270>>, Lbrace |-> 633, Rbrace |-> 634, Type |-> 270],
    [kind |-> "Ident", pos |-> 636, end |-> 638, kids |-> <<>>, Name |-> "F1", NameLen |-> 2, NamePos |-> 636],
    [kind |-> "SelectorExpr", pos |-> 630, end |-> 638, kids |-> <<271, 272>>, Sel |-> 272],
    [kind |-> "ExprStmt", pos |-> 630, end |-> 638, kids |-> <<273>>],
    [kind |-> "Ident", pos |-> 640, end |-> 641, kids |-> <<>>, Name |-> "T", NameLen |-> 1, NamePos |-> 640],
    [kind |-> "Ident", pos |-> 642, end |-> 644, kids |-> <<>>, Name |-> "F0", NameLen |-> 2, NamePos |-> 642],
    [kind |-> "BasicLit", pos |-> 646, end |-> 647, kids |-> <<>>, Value |-> <<"1">>, ValueLen |-> 1, ValuePos |-> 646],
    [kind |-> "KeyValueExpr", pos |-> 642, end |-> 647, kids |-> <<276, 277>>, Colon |-> 644],
    [kind |-> "CompositeLit", pos |-> 640, end |-> 648, kids |-> <<275, 278>>, Lbrace |-> 641, Rbrace |-> 647, Type |-> 275],
    [kind |-> "ExprStmt", pos |-> 640, end |-> 648, kids |-> <<279>>],
    [kind |-> "Ident", pos |-> 650, end |-> 651, kids |-> <<>>, Name |-> "S", NameLen |-> 1, NamePos |-> 650],
    [kind |-> "Ident", pos |-> 652, end |-> 653, kids |-> <<>>, Name |-> "T", NameLen |-> 1, NamePos |-> 652],
    [kind |-> "CompositeLit", pos |-> 652, end |-> 655, kids |-> <<282>>, Lbrace |-> 653, Rbrace |-> 654, Type |-> 282],
    [kind |-> "Ident", pos |-> 656, end |-> 658, kids |-> <<>>, Name |-> "F0", NameLen |-> 2, NamePos |-> 656],
    [kind |-> "SelectorExpr", pos |-> 652, end |-> 658, kids |-> <<283, 284>>, Sel |-> 284],
    [kind |-> "Ident", pos |-> 660, end |-> 663, kids |-> <<>>, Name |-> "nil", NameLen |-> 3, NamePos |-> 660],
    [kind |-> "CompositeLit", pos |-> 650, end |-> 664, kids |-> <<281, 285, 286>>, Lbrace |-> 651, Rbrace |-> 663, Type |-> 281],
    [kind |-> "ExprStmt", pos |-> 650, end |-> 664, kids |-> <<287>>],
    [kind |-> "Ident", pos |-> 666, end |-> 667, kids |-> <<>>, Name |-> "M", NameLen |-> 1, NamePos |-> 666],
    [kind |-> "Ident", pos |-> 668, end |-> 669, kids |-> <<>>, Name |-> "x", NameLen |-> 1, NamePos |-> 668],
    [kind |-> "SelectorExpr", pos |-> 666, end |-> 669, kids |-> <<289, 290>>, Sel |-> 290],
    [kind |-> "ExprStmt", pos |-> 666, end |-> 669, kids |-> <<291>>],
    [kind |-> "BlockStmt", pos |-> 394, end |-> 671, kids |-> <<158, 164, 171, 176, 183, 190, 196, 202, 204, 208, 212, 214, 220, 226, 232, 237, 247, 253, 264, 269, 274, 280, 288, 292>>, Lbrace |-> 394, Rbrace |-> 670],
    [kind |-> "FuncDecl", pos |-> 383, end |-> 671, kids |-> <<>>, Body |-> 293, Func |-> 383, Name |-> 150, Params |-> 151, Recv |-> 0, Results |-> 0],
    [kind |-> "Ident", pos |-> 679, end |-> 680, kids |-> <<>>, Name |-> "N", NameLen |-> 1, NamePos |-> 679],
    [kind |-> "BasicLit", pos |-> 683, end |-> 684, kids |-> <<>>, Value |-> <<"2">>, ValueLen |-> 1, ValuePos |-> 683],
    [kind |-> "ValueSpec", pos |-> 679, end |-> 684, kids |-> <<295, 296>>],
    [kind |-> "GenDecl", pos |-> 673, end |-> 684, kids |-> <<297>>, Lparen |-> 0, Rparen |-> 0, TokLen |-> 5, TokPos |-> 673],
    [kind |-> "Ident", pos |-> 689, end |-> 690, kids |-> <<>>, Name |-> "M", NameLen |-> 1, NamePos |-> 689],
    [kind |-> "Ident", pos |-> 693, end |-> 694, kids |-> <<>>, Name |-> "N", NameLen |-> 1, NamePos |-> 693],
    [kind |-> "ValueSpec", pos |-> 689, end |-> 694, kids |-> <<299, 300>>],
    [kind |-> "GenDecl", pos |-> 685, end |-> 694, kids |-> <<301>>, Lparen |-> 0, Rparen |-> 0, TokLen |-> 3, TokPos |-> 685],
    [kind |-> "File", pos |-> 6, end |-> 694, kids |-> <<1, 4, 7, 22, 29, 38, 50, 57, 67, 74, 81, 94, 103, 112, 125, 133, 149, 294, 298, 302>>, Package |-> 6]
  >>

\* info.Defs: identifier to the object it defines.
Defs ==
  (8 :> "T") @@ (9 :> "T.F0") @@ (12 :> "T.S") @@ (14 :> "T.P") @@
  (17 :> "T.K") @@ (26 :> "T.M0") @@ (30 :> "t") @@ (35 :> "T.M1") @@
  (39 :> "S") @@ (40 :> "S.F1") @@ (43 :> "S.Fn") @@ (54 :> "S.M6") @@
  (58 :> "P") @@ (59 :> "P.I") @@ (61 :> "P.F2") @@ (71 :> "P.M7") @@
  (75 :> "O") @@ (76 :> "O.T") @@ (82 :> "I") @@ (85 :> "I.M8") @@
  (95 :> "J") @@ (96 :> "J.M9") @@ (104 :> "K") @@ (105 :> "K.M10") @@
  (113 :> "L") @@ (114 :> "L.M11") @@ (118 :> "L.M12") @@ (126 :> "F") @@
  (127 :> "a") @@ (134 :> "f") @@ (135 :> "f.a") @@ (150 :> "run") @@
  (233 :> "e") @@ (238 :> "w") @@ (239 :> "V.W") @@ (248 :> "g") @@
  (254 :> "Loc") @@ (255 :> "Loc.G") @@ (258 :> "Loc.S") @@ (295 :> "N") @@
  (299 :> "M")

\* info.Uses: identifier to the object it uses.
Uses ==
  (10 :> "int") @@ (12 :> "S") @@ (14 :> "P") @@ (17 :> "K") @@
  (23 :> "T") @@ (31 :> "T") @@ (41 :> "int") @@ (51 :> "S") @@
  (59 :> "I") @@ (62 :> "int") @@ (68 :> "P") @@ (76 :> "T") @@
  (83 :> "L") @@ (89 :> "J") @@ (128 :> "int") @@ (137 :> "int") @@
  (141 :> "int") @@ (144 :> "f.a") @@ (152 :> "T") @@ (156 :> "S.F1") @@
  (159 :> "T") @@ (162 :> "S.F1") @@ (165 :> "T") @@ (169 :> "T.F0") @@
  (172 :> "O") @@ (174 :> "P.F2") @@ (177 :> "T") @@ (181 :> "T.M1") @@
  (184 :> "T") @@ (188 :> "L.M11") @@ (191 :> "I") @@ (192 :> "nil") @@
  (194 :> "L.M11") @@ (197 :> "L") @@ (198 :> "nil") @@ (200 :> "L.M11") @@
  (203 :> "error") @@ (205 :> "error") @@ (206 :> "error.Error") @@ (209 :> "print") @@
  (210 :> "M") @@ (213 :> "b") @@ (215 :> "b") @@ (216 :> "b.X") @@
  (218 :> "R.Read") @@ (221 :> "b") @@ (222 :> "b.Y") @@ (224 :> "R.Read") @@
  (227 :> "b") @@ (228 :> "b.C") @@ (230 :> "Client.Tr") @@ (234 :> "error") @@
  (256 :> "int") @@ (258 :> "S") @@ (265 :> "Loc") @@ (267 :> "Loc.G") @@
  (270 :> "Loc") @@ (272 :> "S.F1") @@ (275 :> "T") @@ (276 :> "T.F0") @@
  (281 :> "S") @@ (282 :> "T") @@ (284 :> "T.F0") @@ (286 :> "nil") @@
  (289 :> "M") @@ (300 :> "N")

\* info.Selections: selector expression to its selection.
SelectionOf ==
  (157 :> [recv |-> Pointer(Named("T")), kind |-> "FieldVal", index |-> <<1, 0>>]) @@ (163 :> [recv |-> Named("T"), kind |-> "FieldVal", index |-> <<1, 0>>]) @@ (170 :> [recv |-> Pointer(Named("T")), kind |-> "FieldVal", index |-> <<0>>]) @@ (175 :> [recv |-> Named("O"), kind |-> "FieldVal", index |-> <<0, 2, 1>>]) @@
  (182 :> [recv |-> Pointer(Named("T")), kind |-> "MethodVal", index |-> <<1>>]) @@ (189 :> [recv |-> Pointer(Named("T")), kind |-> "MethodVal", index |-> <<2, 0, 0>>]) @@ (195 :> [recv |-> Named("I"), kind |-> "MethodVal", index |-> <<0>>]) @@ (201 :> [recv |-> Named("L"), kind |-> "MethodVal", index |-> <<0>>]) @@
  (207 :> [recv |-> Named("error"), kind |-> "MethodExpr", index |-> <<0>>]) @@ (219 :> [recv |-> Named("RC"), kind |-> "MethodVal", index |-> <<1>>]) @@ (225 :> [recv |-> Named("RF"), kind |-> "MethodVal", index |-> <<1>>]) @@ (231 :> [recv |-> Named("Client"), kind |-> "FieldVal", index |-> <<0>>]) @@
  (268 :> [recv |-> Named("Loc"), kind |-> "FieldVal", index |-> <<0>>]) @@ (273 :> [recv |-> Named("Loc"), kind |-> "FieldVal", index |-> <<1, 0>>]) @@ (285 :> [recv |-> Named("T"), kind |-> "FieldVal", index |-> <<0>>])

\* The Go source of the file, 693 bytes, no newline at its end:
(*
    // x
    package p
    
    import "a/b"
    import "c
    
    type T struct{F0 int; S; *P; K}
    func (T) M0() {}
    func (t *T) M1() {}
    type S struct{F1 int; Fn func()}
    func (S) M6() {}
    type P struct{I; F2 int}
    func (P) M7() {}
    type O struct{T}
    type I interface{L; M8(); J}
    type J interface{M9()}
    type K interface{M10()}
    type L interface{M11(); M12()}
    type F func(a int)
    func f(a [2]int) int { return a[0] }
    
    func run() {
        (&T{}).F1
        (T{}).F1
        (&T{}).F0
        O{}.F2
        (&T{}).M1
        (&T{}).M11
        I(nil).M11
        L(nil).M11
        error
        error.Error
        print(M)
        b
        b.X.Read
        b.Y.Read
        b.C.Tr
        var e error
        var w interface{W()}
        var g func()
        type Loc struct{G int; S}
        Loc{}.G
        Loc{}.F1
        T{F0: 1}
        S{T{}.F0, nil}
        M.x
    }
    
    const N = 2
    var M = N
*)

\* pkgFiles[0], the root handed to pathEnclosingInterval.
Root == Len(Node)

\* The size of the file in bytes: the last declaration ends the file.
FileSize == Node[Root].end - 1

\* ---- end of the file ----

(***************************************************************************)
(* The objects of go/types that the file's identifiers define and use.     *)
(***************************************************************************)
\* The package conf.Check returns: importPath is the package name p.
ThisPkg == "p"

ArrayT == [k |-> "Array"]

\* A types.Object.  class is its Go type; pkg is Pkg().Path() (NoPkg for the
\* universe's objects); scope is Parent(): "pkg" the top scope of its
\* package, "universe", "file" for an imported package's name, "local" for a
\* function's scopes, "none" for fields and methods, which have no parent;
\* field is Var.IsField(); exported is ast.IsExported(name), which Id() reads.
MkObj(class, name, pkg, scope, type, field, exported) ==
  [class |-> class, name |-> name, pkg |-> pkg, scope |-> scope, type |-> type,
   field |-> field, exported |-> exported]

TypeNameObj(id) ==
  MkObj("TypeName", TypeObj[id].name, TypeObj[id].pkg,
        IF TypeObj[id].top THEN "pkg" ELSE IF TypeObj[id].pkg = NoPkg THEN "universe" ELSE "local",
        Named(id), FALSE, id # "error")

\* Field i (from 1) of the struct type of the named type id.
FieldObj(id, i) ==
  MkObj("Var", StructFields[id][i].name, TypeObj[id].pkg, "none",
        StructFields[id][i].type, TRUE, TRUE)

\* Method i (from 1) of the interface of the named type id, as the
\* declaration of the interface defines it.
IfaceMethodObj(id, i) ==
  MkObj("Func", IfaceMethods[id][i].name, TypeObj[id].pkg, "none",
        Signature(TRUE, IfaceMethods[id][i].recv), FALSE, TRUE)

MethodObj(id, i) ==
  MkObj("Func", NamedMethods[id][i].name, TypeObj[id].pkg, "none",
        Signature(TRUE, NamedMethods[id][i].recv), FALSE, TRUE)

FuncT == Signature(FALSE, NilType)

\* The objects, by the keys the tables Defs and Uses hold.
Object ==
  [ T |-> TypeNameObj("T"), S |-> TypeNameObj("S"), P |-> TypeNameObj("P"),
    O |-> TypeNameObj("O"), I |-> TypeNameObj("I"), J |-> TypeNameObj("J"),
    K |-> TypeNameObj("K"), L |-> TypeNameObj("L"), F |-> TypeNameObj("F"),
    Loc |-> TypeNameObj("Loc"), error |-> TypeNameObj("error"),
    int |-> MkObj("TypeName", "int", NoPkg, "universe", Basic("int"), FALSE, FALSE),
    nil |-> MkObj("Nil", "nil", NoPkg, "universe", Basic("untyped nil"), FALSE, FALSE),
    print |-> MkObj("Builtin", "print", NoPkg, "universe", Basic("invalid type"), FALSE, FALSE),
    b |-> MkObj("PkgName", "b", ThisPkg, "file", Basic("invalid type"), FALSE, FALSE) ]
  @@ ("T.F0" :> FieldObj("T", 1)) @@ ("T.S" :> FieldObj("T", 2))
  @@ ("T.P" :> FieldObj("T", 3)) @@ ("T.K" :> FieldObj("T", 4))
  @@ ("S.F1" :> FieldObj("S", 1)) @@ ("S.Fn" :> FieldObj("S", 2))
  @@ ("P.I" :> FieldObj("P", 1)) @@ ("P.F2" :> FieldObj("P", 2))
  @@ ("O.T" :> FieldObj("O", 1))
  @@ ("Loc.G" :> FieldObj("Loc", 1)) @@ ("Loc.S" :> FieldObj("Loc", 2))
  @@ ("Client.Tr" :> FieldObj("Client", 1))
  @@ ("T.M0" :> MethodObj("T", 1)) @@ ("T.M1" :> MethodObj("T", 2))
  @@ ("S.M6" :> MethodObj("S", 1)) @@ ("P.M7" :> MethodObj("P", 1))
  @@ ("I.M8" :> IfaceMethodObj("I", 3)) @@ ("J.M9" :> IfaceMethodObj("J", 1))
  @@ ("K.M10" :> IfaceMethodObj("K", 1))
  @@ ("L.M11" :> IfaceMethodObj("L", 1)) @@ ("L.M12" :> IfaceMethodObj("L", 2))
  @@ ("R.Read" :> IfaceMethodObj("R", 1))
  @@ ("error.Error" :> IfaceMethodObj("error", 1))
  @@ ("V.W" :> MkObj("Func", "W", ThisPkg, "none", Signature(TRUE, InterfaceT("V")), FALSE, TRUE))
  @@ ("f" :> MkObj("Func", "f", ThisPkg, "pkg", FuncT, FALSE, FALSE))
  @@ ("run" :> MkObj("Func", "run", ThisPkg, "pkg", FuncT, FALSE, FALSE))
  @@ ("N" :> MkObj("Const", "N", ThisPkg, "pkg", Basic("untyped int"), FALSE, TRUE))
  @@ ("M" :> MkObj("Var", "M", ThisPkg, "pkg", Basic("int"), FALSE, TRUE))
  @@ ("a" :> MkObj("Var", "a", ThisPkg, "local", Basic("int"), FALSE, FALSE))
  @@ ("f.a" :> MkObj("Var", "a", ThisPkg, "local", ArrayT, FALSE, FALSE))
  @@ ("t" :> MkObj("Var", "t", ThisPkg, "local", Pointer(Named("T")), FALSE, FALSE))
  @@ ("e" :> MkObj("Var", "e", ThisPkg, "local", Named("error"), FALSE, FALSE))
  @@ ("w" :> MkObj("Var", "w", ThisPkg, "local", InterfaceT("V"), FALSE, FALSE))
  @@ ("g" :> MkObj("Var", "g", ThisPkg, "local", FuncT, FALSE, FALSE))
  @@ ("b.X" :> MkObj("Var", "X", "a/b", "pkg", Named("RC"), FALSE, TRUE))
  @@ ("b.Y" :> MkObj("Var", "Y", "a/b", "pkg", Named("RF"), FALSE, TRUE))
  @@ ("b.C" :> MkObj("Var", "C", "a/b", "pkg", Named("Client"), FALSE, TRUE))

\* PkgName.Imported().Path() of the package names of the file.
Imported == [b |-> "a/b"]

\* The object keys; "nil" stands for a nil types.Object.
NoObject == "<nil>"

\* pkg.Scope().Lookup(name) and types.Universe.Lookup(name).
PkgScopeLookup(name) ==
  LET hit == {o \in DOMAIN info.Object : /\ info.Object[o].scope = "pkg"
                                    /\ info.Object[o].pkg = ThisPkg
                                    /\ info.Object[o].name = name}
  IN IF hit = {} THEN NoObject ELSE CHOOSE o \in hit : TRUE

UniverseLookup(name) ==
  LET hit == {o \in DOMAIN info.Object : info.Object[o].scope = "universe" /\ info.Object[o].name = name}
  IN IF hit = {} THEN NoObject ELSE CHOOSE o \in hit : TRUE

\* Object.Id(): the name when exported, else qualified by the package path.
ObjId(o) ==
  IF info.Object[o].exported THEN info.Object[o].name
  ELSE (IF info.Object[o].pkg = NoPkg THEN "_" ELSE info.Object[o].pkg) \o "." \o info.Object[o].name

\* info.Defs[id], info.Uses[id]: nil for an identifier the map does not hold.
DefOf(id) == IF id \in DOMAIN info.Defs THEN info.Defs[id] ELSE NoObject
UseOf(id) == IF id \in DOMAIN info.Uses THEN info.Uses[id] ELSE NoObject

(***************************************************************************)
(* childrenOf and pathEnclosingInterval.                                   *)
(***************************************************************************)
\* tok(pos, len): the fake node of a bare token.  A child of a node is a
\* record: a token, or the subtree id with its interval [Pos(), End()).
tok(pos, len) == [tok |-> TRUE, id |-> 0, pos |-> pos, end |-> pos + len]
Subtree(id) == [tok |-> FALSE, id |-> id, pos |-> file[id].pos, end |-> file[id].end]

\* The true subtrees of n, in the order of ast.Inspect.
Subtrees(n) == [i \in 1..Len(file[n].kids) |-> Subtree(file[n].kids[i])]

\* The optional part of a FuncDecl: nothing when the field is nil.
Part(id) == IF id = 0 THEN << >> ELSE << Subtree(id) >>

\* The switch of childrenOf: the children before the sort, for the node
\* kinds of the file.  Lengths are those of the token texts the code names
\* (len("{") for both braces of a CompositeLit and both brackets of an
\* IndexExpr).  A FuncDecl discards its subtrees and lists its parts itself.
unsortedChildren(n) ==
  LET nd == file[n]
      k == nd.kind
  IN CASE k = "ArrayType" ->
            Subtrees(n) \o << tok(nd.Lbrack, 1), tok(file[nd.Elt].end, 1) >>
       [] k = "BasicLit" -> Subtrees(n) \o << tok(nd.ValuePos, nd.ValueLen) >>
       [] k \in {"BlockStmt", "CompositeLit"} ->
            Subtrees(n) \o << tok(nd.Lbrace, 1), tok(nd.Rbrace, 1) >>
       [] k = "CallExpr" ->
            Subtrees(n) \o << tok(nd.Lparen, 1), tok(nd.Rparen, 1) >>
              \o (IF nd.Ellipsis # 0 THEN << tok(nd.Ellipsis, 3) >> ELSE << >>)
       [] k = "FieldList" ->
            Subtrees(n) \o << tok(nd.Opening, 1), tok(nd.Closing, 1) >>
       [] k = "File" -> Subtrees(n) \o << tok(nd.Package, 7) >>
       [] k = "FuncDecl" ->
            << tok(nd.Func, 4) >> \o Part(nd.Recv) \o << Subtree(nd.Name) >>
              \o Part(nd.Params) \o Part(nd.Results) \o Part(nd.Body)
       [] k = "FuncType" ->
            Subtrees(n) \o (IF nd.Func # 0 THEN << tok(nd.Func, 4) >> ELSE << >>)
       [] k = "GenDecl" ->
            Subtrees(n) \o << tok(nd.TokPos, nd.TokLen) >>
              \o (IF nd.Lparen # 0 THEN << tok(nd.Lparen, 1), tok(nd.Rparen, 1) >>
                  ELSE << >>)
       [] k = "Ident" -> Subtrees(n) \o << tok(nd.NamePos, nd.NameLen) >>
       [] k = "IndexExpr" ->
            Subtrees(n) \o << tok(nd.Lbrack, 1), tok(nd.Rbrack, 1) >>
       [] k = "InterfaceType" -> Subtrees(n) \o << tok(nd.Interface, 9) >>
       [] k = "KeyValueExpr" -> Subtrees(n) \o << tok(nd.Colon, 1) >>
       [] k = "ParenExpr" ->
            Subtrees(n) \o << tok(nd.Lparen, 1), tok(nd.Rparen, 1) >>
       [] k = "ReturnStmt" -> Subtrees(n) \o << tok(nd.Return, 6) >>
       [] k = "StarExpr" -> Subtrees(n) \o << tok(nd.Star, 1) >>
       [] k = "StructType" -> Subtrees(n) \o << tok(nd.Struct, 6) >>
       [] k = "UnaryExpr" -> Subtrees(n) \o << tok(nd.OpPos, nd.OpLen) >>
       [] k \in {"DeclStmt", "ExprStmt", "Field", "ImportSpec", "SelectorExpr",
                 "TypeSpec", "ValueSpec"} -> Subtrees(n)

\* sort.Sort(byPos(children)): ascending Pos().  Children of equal Pos() are
\* left in the order they have; in the file such children are equal tokens.
RECURSIVE insertByPos(_, _)
insertByPos(s, c) ==
  IF s = << >> THEN << c >>
  ELSE IF c.pos < s[1].pos THEN << c >> \o s
  ELSE << s[1] >> \o insertByPos(Tail(s), c)

RECURSIVE byPos(_)
byPos(s) ==
  IF s = << >> THEN << >>
  ELSE insertByPos(byPos(SubSeq(s, 1, Len(s) - 1)), s[Len(s)])

childrenOf(n) == byPos(unsortedChildren(n))

\* The loop of visit over the children, from child i (from 1): the sole
\* child whose whitespace-augmented interval contains [start, end) is
\* visited, or is a token; the interval lies between two children; or no
\* single child contains it.
RECURSIVE childLoop(_, _, _, _)
childLoop(children, i, start, end) ==
  IF i > Len(children) THEN [r |-> "none"]
  ELSE LET child == children[i]
           last == i = Len(children)
           augPos == IF i > 1 THEN children[i - 1].end ELSE child.pos
           augEnd == IF last THEN child.end ELSE children[i + 1].pos
       IN IF ~last /\ start >= child.end /\ end <= children[i + 1].pos
          THEN [r |-> "between"]
          ELSE IF augPos <= start /\ end <= augEnd
               THEN IF child.tok THEN [r |-> "token"] ELSE [r |-> "visit", id |-> child.id]
               ELSE IF start < child.end /\ end > augEnd
                    THEN [r |-> "none"]
                    ELSE childLoop(children, i + 1, start, end)

\* visit(node): the path from node down, node first, and whether the match
\* is exact.  start and end are the closure's variables, clipped to the node
\* at each visit.
RECURSIVE visit(_, _, _)
visit(node, start0, end0) ==
  LET nodePos == file[node].pos
      nodeEnd == file[node].end
      start == IF start0 < nodePos THEN nodePos ELSE start0
      end == IF end0 > nodeEnd THEN nodeEnd ELSE end0
      r == childLoop(childrenOf(node), 1, start, end)
  IN CASE r.r = "visit" ->
            LET v == visit(r.id, start, end)
            IN [path |-> << node >> \o v.path, exact |-> v.exact]
       [] r.r = "token" -> [path |-> << node >>, exact |-> TRUE]
       [] r.r = "between" -> [path |-> << node >>, exact |-> FALSE]
       [] OTHER -> [path |-> << node >>, exact |-> start = nodePos /\ end = nodeEnd]

\* A reversal that leaves the path in the order of the visits.
Reverse_Keep(s) == s

\* The loop that reverses the path in place.
Reverse(s) == [i \in 1..Len(s) |-> s[Len(s) + 1 - i]]

\* A pathEnclosingInterval that takes the position root.End() as inside.
pathEnclosingInterval_Inclusive(root, start0, end0) ==
  LET v == visit(root, start0, IF start0 = end0 THEN start0 + 1 ELSE end0)
  IN IF start0 <= file[root].end /\ end0 > file[root].pos
     THEN [path |-> Reverse(v.path), exact |-> v.exact]
     ELSE [path |-> << root >>, exact |-> FALSE]

\* A pathEnclosingInterval that returns the innermost node and its parent
\* alone.
pathEnclosingInterval_LeafAndParent(root, start0, end0) ==
  LET v == visit(root, start0, IF start0 = end0 THEN start0 + 1 ELSE end0)
      p == Reverse(v.path)
  IN IF start0 < file[root].end /\ end0 > file[root].pos
     THEN [path |-> SubSeq(p, 1, IF Len(p) > 2 THEN 2 ELSE Len(p)), exact |-> v.exact]
     ELSE [path |-> << root >>, exact |-> FALSE]

pathEnclosingInterval(root, start0, end0) ==
  LET start == IF start0 > end0 THEN end0 ELSE start0
      end == IF start0 > end0 THEN start0 ELSE end0
  IN IF start < file[root].end /\ end > file[root].pos
     THEN LET v == visit(root, start, IF start = end THEN start + 1 ELSE end)
          IN [path |-> Reverse(v.path), exact |-> v.exact]
     ELSE [path |-> << root >>, exact |-> FALSE]

\* token.Pos(*offset): the flag's number is taken as a position.  The file
\* is the first of a fresh FileSet, whose base is 1: position p is the byte
\* of 0-based index p - 1.
\* A conversion that takes the flag's number as a 0-based index.
tokenPos_ZeroBased(off) == off + 1

tokenPos(off) == off
ByteIndex(p) == p - 1

(***************************************************************************)
(* main: the cases over the path, info.Defs, info.Uses, info.Selections.   *)
(***************************************************************************)
\* strconv.Unquote of a literal given as its characters, for literals with
\* no backslash inside: the two ends must be the same quote character and
\* the inside must hold neither that quote nor a newline.
RECURSIVE Join(_)
Join(chars) == IF chars = << >> THEN "" ELSE chars[1] \o Join(Tail(chars))

\* An Unquote that drops the two ends without a look at them.
Unquote_Trim(lit) == [ok |-> TRUE, val |-> Join(SubSeq(lit, 2, Len(lit) - 1))]

Unquote(lit) ==
  LET n == Len(lit)
      inside == SubSeq(lit, 2, n - 1)
      has(c) == \E i \in 1..Len(inside) : inside[i] = c
      bad == [ok |-> FALSE, val |-> ""]
  IN IF n < 2 THEN bad
     ELSE IF lit[1] # lit[n] THEN bad
     ELSE IF lit[1] = "`" THEN (IF has("`") THEN bad ELSE [ok |-> TRUE, val |-> Join(inside)])
     ELSE IF lit[1] # "\"" /\ lit[1] # "'" THEN bad
     ELSE IF has("\n") THEN bad
     ELSE IF lit[1] = "'" /\ Len(inside) # 1 THEN bad
     ELSE IF ~has("\\") /\ ~has(lit[1]) THEN [ok |-> TRUE, val |-> Join(inside)]
     ELSE bad

\* nodes[i] of main, i counted from 0: the kind of the node, or "<panic>"
\* when the path has no entry i (index out of range).
kindAt(path, i) == IF i < Len(path) THEN file[path[i + 1]].kind ELSE "<panic>"

\* Lines 148-149: the path has more than two nodes and nodes[1] is an
\* ImportSpec.
isImport(path) == Len(path) > 2 /\ kindAt(path, 1) = "ImportSpec"

\* Lines 159-172: identX, 0 when nodes[0] is neither a selector nor an
\* identifier, and selX, 0 for nil.
identXOf(path) ==
  IF kindAt(path, 0) = "SelectorExpr" THEN file[path[1]].Sel
  ELSE IF kindAt(path, 0) = "Ident" THEN path[1]
  ELSE 0

selXOf(path) ==
  IF kindAt(path, 0) = "SelectorExpr" THEN path[1]
  ELSE IF Len(path) > 1 /\ kindAt(path, 1) = "SelectorExpr" THEN path[2]
  ELSE 0

\* Lines 174-208: identX defines the object o.
defCase(path, id) ==
  LET obj == info.Object[DefOf(id)]
      t == obj.type
  IN IF t.k = "Signature"
     THEN IF ~t.hasRecv
          THEN outputData(objectString(obj.pkg, obj.name))
          ELSE IF obj.pkg = NoPkg \/ dereferenceType(t.recv).k # "Named"
               THEN PanicOut
               ELSE outputData(<< obj.pkg, TypeObj[dereferenceType(t.recv).id].name,
                                  file[id].Name >>)
     ELSE IF obj.scope = "pkg" /\ obj.pkg = ThisPkg
          THEN outputData(objectString(obj.pkg, obj.name))
          ELSE IF kindAt(path, 1) = "<panic>" THEN PanicOut
          ELSE IF kindAt(path, 1) = "Field" /\ kindAt(path, 4) = "<panic>" THEN PanicOut
          ELSE IF kindAt(path, 1) = "Field" /\ kindAt(path, 4) = "TypeSpec"
               THEN IF obj.pkg = NoPkg THEN PanicOut
                    ELSE outputData(<< obj.pkg, file[file[path[5]].Name].Name, obj.name >>)
               ELSE typeFallback(t, "unable to identify def")

\* Lines 215-226: the object used is a struct field and nodes[2] is a
\* composite literal whose type is written as an identifier or a selector.
isFieldUse(o) == info.Object[o].class = "Var" /\ info.Object[o].field

litTypeName(lit) ==
  IF "Type" \notin DOMAIN file[lit] THEN ""
  ELSE IF file[file[lit].Type].kind = "SelectorExpr"
       THEN file[file[file[lit].Type].Sel].Name
       ELSE IF file[file[lit].Type].kind = "Ident" THEN file[file[lit].Type].Name
       ELSE ""

structLiteralReturns(path, o) ==
  /\ isFieldUse(o)
  /\ \/ kindAt(path, 2) = "<panic>"
     \/ kindAt(path, 2) = "CompositeLit" /\ litTypeName(path[3]) # ""

structLiteralCase(path, o) ==
  IF kindAt(path, 2) = "<panic>" \/ info.Object[o].pkg = NoPkg THEN PanicOut
  ELSE outputData(<< info.Object[o].pkg, litTypeName(path[3]), ObjId(o) >>)

\* Lines 230-243: the leaf is not under a selector.
plainCase(id, o) ==
  IF PkgScopeLookup(file[id].Name) = o
  THEN outputData(objectString(info.Object[o].pkg, info.Object[o].name))
  ELSE IF UniverseLookup(file[id].Name) = o
       THEN outputData(<< "builtin", info.Object[o].name >>)
       ELSE typeFallback(info.Object[o].type, "not a package-level definition")

\* The branch of plainCase that ends in return: the type fallback.
plainReturns(id, o) ==
  PkgScopeLookup(file[id].Name) # o /\ UniverseLookup(file[id].Name) # o

\* Lines 262-270: a qualified reference.
qualifiedCase(sx) ==
  LET o == UseOf(file[sx].Sel)
  IN IF o # NoObject THEN outputData(objectString(info.Object[o].pkg, info.Object[o].name))
     ELSE Fatal("no selector type")

(***************************************************************************)
(* The importer: makeImporter and sourceImporterFrom.ImportFrom.           *)
(***************************************************************************)
\* The import paths and source directories ImportFrom is called with: the
\* key of the cache is the pair.
Paths == {"a/b", "c/d"}
SrcDirs == {"", "/src/p"}
Keys == Paths \X SrcDirs

\* A *types.Package: where it comes from (the export data the system
\* importer reads, or a check from source), which check made it, and what
\* Complete() reports.  NoPackage is the nil package.
Package(from, gen, complete) == [from |-> from, gen |-> gen, complete |-> complete]
NoPackage == Package("nil", 0, FALSE)
ExportPackage == Package("export", 0, TRUE)

\* cached: map[importerPkgKey]*types.Package{}, no key present.
EmptyCache == [k \in Keys |-> NoPackage]

\* What a call of ImportFrom returned: (pkg, err) for the key, the line of
\* ImportFrom that returned it, and the entry s.cached[key] it read at line
\* 442 (NoPackage when it returned before that line).
Ret(key, pkg, err, step, was) ==
  [key |-> key, pkg |-> pkg, err |-> err, step |-> step, was |-> was]
NoRet == [step |-> "none"]

\* A cache test that takes any entry that is present.
cacheHit_AnyEntry(pkg) == pkg # NoPackage

\* Line 442: pkg != nil && pkg.Complete().
cacheHit(pkg) == pkg # NoPackage /\ pkg.complete

\* What the parse of the source directory gives (lines 454-469): an error,
\* no package that is neither main nor a test package, or a package; and
\* what conf.Check gives (line 483): no package, or a package that reports
\* itself complete or not, each with or without an error.
ParseOutcomes == {"error", "unsuitable", "ok"}
CheckOutcomes == {"nil", "incomplete", "complete"}

(***************************************************************************)
(* The selections handed to the walk.                                      *)
(***************************************************************************)
Kinds == {"FieldVal", "MethodVal", "MethodExpr"}

\* The receiver types: every named type, a pointer to it, a struct and an
\* interface type that have no name, and a basic type.
RecvTypes ==
  {Named(n) : n \in NamedIds} \cup {Pointer(Named(n)) : n \in NamedIds}
    \cup {StructT("U"), Pointer(StructT("U")), InterfaceT("V"), Basic("int")}

RECURSIVE PathsOfLen(_)
PathsOfLen(n) ==
  IF n = 0 THEN {<< >>}
  ELSE {Append(p, i) : p \in PathsOfLen(n - 1), i \in 0..MaxIdx}

IndexPaths == UNION {PathsOfLen(n) : n \in 1..MaxPath}

Selections == [recv : RecvTypes, kind : Kinds, index : IndexPaths]

\* What a selection denotes, read off the declarations: the index path leads
\* through embedded fields to a struct and one of its fields (FieldVal), or
\* to a type and one entry of its method set.  ok is FALSE when the path does
\* not fit the declarations; owner is the type that declares the member.
RECURSIVE Denotes(_, _, _)
Denotes(typ, kind, index) ==
  LET b == dereferenceType(typ)
      u == IF b.k = "Named" THEN Underlying[b.id] ELSE b
      i == index[1] + 1
      bad == [ok |-> FALSE, owner |-> NilType, name |-> "?"]
  IN IF Len(index) > 1
     THEN IF u.k = "Struct" /\ i <= Len(StructFields[u.id]) /\ StructFields[u.id][i].embedded
          THEN Denotes(StructFields[u.id][i].type, kind, Tail(index))
          ELSE bad
     ELSE IF kind = "FieldVal"
          THEN IF u.k = "Struct" /\ i <= Len(StructFields[u.id])
               THEN [ok |-> TRUE, owner |-> b, name |-> StructFields[u.id][i].name]
               ELSE bad
          ELSE IF u.k = "Interface"
               THEN IF i <= Len(IfaceMethods[u.id])
                    THEN LET m == IfaceMethods[u.id][i]
                         IN [ok |-> TRUE,
                             owner |-> IF m.decl \in NamedIds THEN Named(m.decl)
                                       ELSE InterfaceT(m.decl),
                             name |-> m.name]
                    ELSE bad
               ELSE IF b.k = "Named" /\ i <= Len(NamedMethods[b.id])
                    THEN [ok |-> TRUE, owner |-> b, name |-> NamedMethods[b.id][i].name]
                    ELSE bad

\* The inputs of the walk: a selection, the name of the leaf identifier
\* (the selected member, or x when the leaf is the operand left of the dot)
\* and the type of the object the leaf uses.
WalkInputs ==
  {[sel |-> s, name |-> n, objType |-> s.recv] :
     s \in Selections, n \in {"x"}} \cup
  {[sel |-> s, name |-> Denotes(s.recv, s.kind, s.index).name, objType |-> s.recv] :
     s \in {t \in Selections : Denotes(t.recv, t.kind, t.index).ok}}

NoWalk == [sel |-> "none"]

(***************************************************************************)
(* The walk alone, over every selection of the bounds.                     *)
(***************************************************************************)
WalkInit ==
  /\ file = << >>
  /\ info = [Defs |-> << >>, Uses |-> << >>, Selections |-> << >>, Object |-> << >>]
  /\ pc = "walk"
  /\ offset = 0
  /\ nodes = << >>
  /\ walk \in WalkInputs
  /\ out = NoOut
  /\ repetitions = 1
  /\ printed = 0
  /\ importsrc = TRUE
  /\ cached = EmptyCache
  /\ ret = NoRet
  /\ checks = 0

\* deepRecvType and the selection branch of main, on the drawn selection.
WalkSelection ==
  /\ pc = "walk"
  /\ out' = selectionCase(walk.sel, walk.name, walk.objType)
  /\ pc' = "done"
  /\ UNCHANGED <<file, info, offset, nodes, walk, repetitions, printed, impVars>>

WalkNext == WalkSelection

WalkSpec == WalkInit /\ [][WalkNext]_vars

(***************************************************************************)
(* A query: main from the flags to the exit.                               *)
(***************************************************************************)
\* The offsets of the -o flag: every position of the file and some outside.
Offsets == (0 - MaxBeyond)..(FileSize + MaxBeyond)

Init ==
  /\ file = Node
  /\ info = [Defs |-> Defs, Uses |-> Uses, Selections |-> SelectionOf, Object |-> Object]
  /\ pc = "locate"
  /\ offset \in Offsets
  /\ repetitions \in 1..MaxReps
  /\ nodes = << >>
  /\ walk = NoWalk
  /\ out = NoOut
  /\ printed = 0
  /\ importsrc = TRUE
  /\ cached = EmptyCache
  /\ ret = NoRet
  /\ checks = 0

\* The end of a case with result r: a fatal error or a panic exits; a case
\* that returns exits after its line; the others reach lines 272-275 and go
\* to repeat while -debug.repetitions is above 1.
finish(r, returns) ==
  /\ out' = r
  /\ printed' = IF r.kind = "desc" THEN printed + 1 ELSE printed
  /\ IF r.kind = "desc" /\ ~returns /\ repetitions > 1
     THEN pc' = "locate" /\ repetitions' = repetitions - 1
     ELSE pc' = "done" /\ repetitions' = repetitions
  /\ UNCHANGED <<file, info, offset, nodes, walk, impVars>>

\* Lines 141-142.
Locate ==
  /\ pc = "locate"
  /\ nodes' = pathEnclosingInterval(Root, tokenPos(offset), tokenPos(offset)).path
  /\ pc' = "import"
  /\ UNCHANGED <<file, info, offset, walk, out, repetitions, printed, impVars>>

\* Lines 148-157.
ImportStatement ==
  /\ pc = "import"
  /\ isImport(nodes)
  /\ LET u == Unquote(file[file[nodes[2]].Path].Value)
     IN finish(IF u.ok THEN outputData(<< u.val >>) ELSE Fatal("invalid syntax"), TRUE)

\* Lines 161-168, no identifier.
NoIdentifier ==
  /\ pc = "import"
  /\ ~isImport(nodes)
  /\ identXOf(nodes) = 0
  /\ finish(Fatal("no identifier found"), TRUE)

\* Lines 161-172, identX and selX are set.
SelectIdent ==
  /\ pc = "import"
  /\ ~isImport(nodes)
  /\ identXOf(nodes) # 0
  /\ pc' = "resolve"
  /\ UNCHANGED <<file, info, offset, nodes, walk, out, repetitions, printed, impVars>>

\* Lines 174-208.
Definition ==
  /\ pc = "resolve"
  /\ DefOf(identXOf(nodes)) # NoObject
  /\ finish(defCase(nodes, identXOf(nodes)), TRUE)

\* The leaf defines nothing: the object it uses, line 210.
isUse == pc = "resolve" /\ DefOf(identXOf(nodes)) = NoObject
used == UseOf(identXOf(nodes))

\* Lines 211-213.
NoTypeInformation ==
  /\ isUse
  /\ used = NoObject
  /\ finish(Fatal("no type information for identifier"), TRUE)

\* Lines 215-226.
StructLiteral ==
  /\ isUse
  /\ used # NoObject
  /\ structLiteralReturns(nodes, used)
  /\ finish(structLiteralCase(nodes, used), TRUE)

\* The cases of lines 228-270 are reached.
isCase == isUse /\ used # NoObject /\ ~structLiteralReturns(nodes, used)

\* Lines 228-229.
PackageName ==
  /\ isCase
  /\ info.Object[used].class = "PkgName"
  /\ finish(outputData(<< Imported[used] >>), FALSE)

\* Lines 230-243.
PlainIdent ==
  /\ isCase
  /\ info.Object[used].class # "PkgName"
  /\ selXOf(nodes) = 0
  /\ finish(plainCase(identXOf(nodes), used), plainReturns(identXOf(nodes), used))

\* Lines 244-261.
Selection ==
  /\ isCase
  /\ info.Object[used].class # "PkgName"
  /\ selXOf(nodes) # 0
  /\ selXOf(nodes) \in DOMAIN info.Selections
  /\ LET sel == info.Selections[selXOf(nodes)]
         name == file[identXOf(nodes)].Name
     IN finish(selectionCase(sel, name, info.Object[used].type),
               ~LookupFieldOrMethod(sel.recv, name))

\* Lines 262-270.
Qualified ==
  /\ isCase
  /\ info.Object[used].class # "PkgName"
  /\ selXOf(nodes) # 0
  /\ selXOf(nodes) \notin DOMAIN info.Selections
  /\ finish(qualifiedCase(selXOf(nodes)), FALSE)

Next ==
  \/ Locate
  \/ ImportStatement
  \/ NoIdentifier
  \/ SelectIdent
  \/ Definition
  \/ NoTypeInformation
  \/ StructLiteral
  \/ PackageName
  \/ PlainIdent
  \/ Selection
  \/ Qualified

Spec == Init /\ [][Next]_vars

(***************************************************************************)
(* The importer over the runs of one process.                              *)
(***************************************************************************)
ImporterInit ==
  /\ file = << >>
  /\ info = [Defs |-> << >>, Uses |-> << >>, Selections |-> << >>, Object |-> << >>]
  /\ pc = "conf"
  /\ offset = 0
  /\ nodes = << >>
  /\ walk = NoWalk
  /\ out = NoOut
  /\ printed = 0
  /\ repetitions \in 1..MaxReps
  /\ importsrc \in BOOLEAN
  /\ cached = EmptyCache
  /\ ret = NoRet
  /\ checks = 0

\* Lines 122-127 and makeImporter: the run builds its conf; with -importsrc
\* the importer is a new sourceImporterFrom with an empty map.
MakeImporter ==
  /\ pc = "conf"
  /\ cached' = IF importsrc THEN EmptyCache ELSE cached
  /\ pc' = "check"
  /\ UNCHANGED <<importsrc, ret, checks, repetitions, queryVars>>

\* conf.Check asks the importer for a dependency; without -importsrc the
\* importer is systemImp itself.
SystemImportFrom(path, srcDir, sys) ==
  /\ pc = "check"
  /\ ~importsrc
  /\ ret' = Ret(<<path, srcDir>>, sys, sys = NoPackage, "system", NoPackage)
  /\ UNCHANGED <<pc, importsrc, cached, checks, repetitions, queryVars>>

\* Lines 435-488.  sys is what the system importer returns, parsed and
\* checked what the parse and the check of the source directory give, err
\* whether the check reports an error.
ImportFrom(path, srcDir, sys, parsed, checked, err) ==
  LET key == <<path, srcDir>>
      new == Package("source", checks + 1, checked = "complete")
  IN /\ pc = "check"
     /\ importsrc
     /\ IF sys # NoPackage
        THEN /\ ret' = Ret(key, sys, FALSE, "system", NoPackage)
             /\ UNCHANGED <<cached, checks>>
        ELSE IF cacheHit(cached[key])
        THEN /\ ret' = Ret(key, cached[key], FALSE, "hit", cached[key])
             /\ UNCHANGED <<cached, checks>>
        ELSE IF parsed = "error"
        THEN /\ ret' = Ret(key, NoPackage, TRUE, "parse error", cached[key])
             /\ UNCHANGED <<cached, checks>>
        ELSE IF parsed = "unsuitable"
        THEN /\ ret' = Ret(key, NoPackage, TRUE, "no suitable package", cached[key])
             /\ UNCHANGED <<cached, checks>>
        ELSE /\ checks < MaxChecks
             /\ checks' = checks + 1
             /\ cached' = IF checked # "nil" THEN [cached EXCEPT ![key] = new] ELSE cached
             /\ ret' = Ret(key, IF checked # "nil" THEN new ELSE NoPackage, err, "checked",
                           cached[key])
     /\ UNCHANGED <<pc, importsrc, repetitions, queryVars>>

\* Lines 272-275: the run has printed its line and -debug.repetitions is
\* above 1.
Repeat ==
  /\ pc = "check"
  /\ repetitions > 1
  /\ repetitions' = repetitions - 1
  /\ pc' = "conf"
  /\ UNCHANGED <<importsrc, cached, ret, checks, queryVars>>

\* The run ends the process: a return, a log.Fatal, or the end of main.
Exit ==
  /\ pc = "check"
  /\ pc' = "done"
  /\ UNCHANGED <<importsrc, cached, ret, checks, repetitions, queryVars>>

ImporterNext ==
  \/ MakeImporter
  \/ \E path \in Paths, srcDir \in SrcDirs, sys \in {NoPackage, ExportPackage} :
        SystemImportFrom(path, srcDir, sys)
  \/ \E path \in Paths, srcDir \in SrcDirs, sys \in {NoPackage, ExportPackage},
        parsed \in ParseOutcomes, checked \in CheckOutcomes, err \in BOOLEAN :
        ImportFrom(path, srcDir, sys, parsed, checked, err)
  \/ Repeat
  \/ Exit

ImporterSpec == ImporterInit /\ [][ImporterNext]_vars

(***************************************************************************)
(* Properties of the walk.                                                 *)
(***************************************************************************)
\* What the drawn selection denotes.
WalkDenotes == Denotes(walk.sel.recv, walk.sel.kind, walk.sel.index)

\* The named type n is the one its package's top scope holds under its name.
TopLevel(n) == TypeObj[n].pkg # NoPkg /\ ScopeLookup(TypeObj[n].pkg, TypeObj[n].name) = n

\* The descriptor {Package, Container, Name}.
Descriptor(pkg, container, name) == [Package |-> pkg, Container |-> container, Name |-> name]

\* The walk has resolved a field selection x.F whose leaf is F.
FieldCase ==
  /\ pc = "done"
  /\ walk.sel.kind = "FieldVal"
  /\ WalkDenotes.ok
  /\ walk.name = WalkDenotes.name

InterfaceMethodCase ==
  /\ pc = "done"
  /\ walk.sel.kind \in {"MethodVal", "MethodExpr"}
  /\ WalkDenotes.ok
  /\ walk.name = WalkDenotes.name
  /\ WalkDenotes.owner.k = "Named"
  /\ Underlying[WalkDenotes.owner.id].k = "Interface"
  /\ TopLevel(WalkDenotes.owner.id)

\* C2: for every method selection x.M with M declared in an interface L that
\* the static type of x is or embeds, the resolver returns Container = L.
C2_DeclaringInterface ==
  InterfaceMethodCase =>
     /\ out.kind = "desc"
     /\ stringToDefInfo(out.words) =
          Descriptor(TypeObj[WalkDenotes.owner.id].pkg,
                     TypeObj[WalkDenotes.owner.id].name, walk.name)

\* The walk of deepRecvType from hop k with type typ meets a hop whose index
\* is not smaller than the number of fields or methods there, or whose type
\* has neither.
RECURSIVE HopFails(_, _, _, _)
HopFails(sel, typ, k, n) ==
  LET b == dereferenceType(typ)
      u == IF b.k = "Named" THEN Underlying[b.id] ELSE b
      i == sel.index[k]
      methodHop == k = n /\ sel.kind # "FieldVal" /\ b.k = "Named"
      count == IF methodHop /\ u.k # "Interface" THEN Len(NamedMethods[b.id])
               ELSE IF u.k = "Struct" THEN Len(StructFields[u.id])
               ELSE IF u.k = "Interface" THEN Len(IfaceMethods[u.id])
               ELSE 0
  IN k <= n /\
     \/ i >= count
     \/ /\ ~methodHop
        /\ u.k = "Struct"
        /\ HopFails(sel, StructFields[u.id][i + 1].type, k + 1, n)

WalkHopFails ==
  HopFails(walk.sel, walk.sel.recv, 1,
           Len(walk.sel.index) - (IF walk.sel.kind = "FieldVal" THEN 1 ELSE 0))

\* C10: for every selection handed to the walk, a hop whose index is out of
\* range or whose type cannot be indexed ends in the failure that main
\* reports, never in a panic.
C10_WalkFailsTyped ==
  (pc = "done" /\ WalkHopFails) => out.kind = "fatal"

(***************************************************************************)
(* The type the top-scope test of the selection branch is applied to.      *)
(***************************************************************************)
\* The type is a named type declared at the top scope of its package.
DeclaredAtTop(t) == t.k = "Named" /\ TypeObj[t.id].pkg # NoPkg /\ TypeObj[t.id].top

\* The receiver type of the drawn selection after one pointer dereference.
WalkRecv == dereferenceType(walk.sel.recv)

\* The type the walk ends at, after one pointer dereference; NilType when
\* the walk does not return.
WalkEnd ==
  LET d == deepRecvType(walk.sel)
  IN IF d.r = "type" THEN dereferenceType(d.type) ELSE NilType

QueryByte == offset - 1

\* The byte of the query is a byte of node n.
OnNode(n) == ByteIndex(file[n].pos) <= QueryByte /\ QueryByte < ByteIndex(file[n].end)

IdentIds == {n \in 1..Len(file) : file[n].kind = "Ident"}

\* The identifier that holds the byte of the query, 0 when none does.
IdentAtOffset ==
  IF \E n \in IdentIds : OnNode(n) THEN CHOOSE n \in IdentIds : OnNode(n) ELSE 0

\* The method declaration whose name is the identifier id, 0 when none.
MethodDeclOf(id) ==
  LET ds == {n \in 1..Len(file) : /\ file[n].kind = "FuncDecl"
                                  /\ file[n].Name = id
                                  /\ file[n].Recv # 0}
  IN IF ds = {} THEN 0 ELSE CHOOSE n \in ds : TRUE

\* The receiver type as the declaration fd writes it: T or *T.
RecvTypeExpr(fd) ==
  LET fld == file[file[file[fd].Recv].kids[1]]
  IN fld.kids[Len(fld.kids)]

\* The name of the named type of the receiver of fd.
RecvBaseName(fd) ==
  IF file[RecvTypeExpr(fd)].kind = "StarExpr"
  THEN file[file[RecvTypeExpr(fd)].kids[1]].Name
  ELSE file[RecvTypeExpr(fd)].Name

\* C3: for a method declaration whose receiver is T or *T, a query on the
\* method's name returns {Package: the declaring package, Container: the name
\* of the named type T, Name: the method's name}, the same Container for the
\* value receiver and the pointer receiver.
C3_MethodDeclaration ==
  (pc = "done" /\ IdentAtOffset # 0 /\ MethodDeclOf(IdentAtOffset) # 0) =>
     /\ out.kind = "desc"
     /\ stringToDefInfo(out.words) =
          Descriptor(ThisPkg, RecvBaseName(MethodDeclOf(IdentAtOffset)),
                     file[IdentAtOffset].Name)

\* func (t *T) M1: the query on M1 has answered p T M1.
C3_Witness ==
  /\ pc = "done"
  /\ IdentAtOffset # 0
  /\ MethodDeclOf(IdentAtOffset) # 0
  /\ file[RecvTypeExpr(MethodDeclOf(IdentAtOffset))].kind = "StarExpr"
  /\ out = Desc(<< "p", "T", "M1" >>)

\* The identifier id uses an object of the universe scope.
UsesPredeclared(id) ==
  /\ id # 0
  /\ DefOf(id) = NoObject
  /\ UseOf(id) # NoObject
  /\ info.Object[UseOf(id)].scope = "universe"

\* C4: a query on a use of a predeclared identifier returns
\* {Package: "builtin", Name: the identifier} at every position where the
\* identifier occurs, the left operand of a selector expression included.
C4_Predeclared ==
  (pc = "done" /\ UsesPredeclared(IdentAtOffset)) =>
     /\ out.kind = "desc"
     /\ stringToDefInfo(out.words) = Descriptor("builtin", "", file[IdentAtOffset].Name)

\* The path literal of an import spec that holds the byte of the query.
ImportLits ==
  {file[n].Path : n \in {i \in 1..Len(file) : file[i].kind = "ImportSpec"}}

ImportLitAtOffset ==
  IF \E n \in ImportLits : OnNode(n) THEN CHOOSE n \in ImportLits : OnNode(n) ELSE 0

\* The literal is a path between two double quotes.
IsQuoted(chars) ==
  /\ Len(chars) >= 2
  /\ chars[1] = "\""
  /\ chars[Len(chars)] = "\""
  /\ \A i \in 2..(Len(chars) - 1) : chars[i] \notin {"\"", "\\", "\n"}

\* C5: for every query whose byte lies in the path literal of an import
\* spec the result is the descriptor that holds the unquoted path as Package
\* and neither Name nor Container; a literal that cannot be unquoted gives a
\* failure.
C5_ImportPath ==
  (pc = "done" /\ ImportLitAtOffset # 0) =>
     LET chars == file[ImportLitAtOffset].Value
     IN IF IsQuoted(chars)
        THEN /\ out.kind = "desc"
             /\ stringToDefInfo(out.words) =
                  Descriptor(Join(SubSeq(chars, 2, Len(chars) - 1)), "", "")
        ELSE out.kind = "fatal"

\* The closing quote of "a/b", the last byte of the literal, has answered a/b.
C5_Witness ==
  /\ pc = "done"
  /\ ImportLitAtOffset # 0
  /\ QueryByte = ByteIndex(file[ImportLitAtOffset].end) - 1
  /\ out = Desc(<< "a/b" >>)

\* The first declaration of the file: the subtree after the package name.
FirstDecl == file[Root].kids[2]

\* C6: a query whose byte is the one past the last byte of the file (or
\* beyond), or lies before the first declaration, ends in the failure and
\* returns no descriptor.
C6_OutsideDeclarations ==
  (pc = "done" /\ (QueryByte >= FileSize \/ QueryByte < ByteIndex(file[FirstDecl].pos))) =>
     out.kind = "fatal"

\* The byte one past the file, whose last byte is the last of an identifier.
C6_Witness ==
  /\ pc = "done"
  /\ QueryByte = FileSize
  /\ \E n \in IdentIds : ByteIndex(file[n].end) = FileSize
  /\ nodes = << Root >>
  /\ out = Fatal("no identifier found")

ResolvedObject ==
  IF identXOf(nodes) = 0 THEN NoObject
  ELSE IF DefOf(identXOf(nodes)) # NoObject THEN DefOf(identXOf(nodes))
  ELSE UseOf(identXOf(nodes))

\* The object is a struct field or a method.
IsMember(o) ==
  \/ info.Object[o].class = "Var" /\ info.Object[o].field
  \/ info.Object[o].class = "Func" /\ info.Object[o].type.hasRecv

\* The descriptor is the one of the type of the object o, not of o itself.
IsTypeDescriptor(o) ==
  LET tn == typeName(dereferenceType(info.Object[o].type))
  IN tn.r = "ok" /\ out.words = tn.words

\* C8: in every descriptor Container is non-empty if and only if Name
\* denotes a method or a struct field: the descriptor that names the object
\* of the query has a Container exactly when the object is a method or a
\* field, and the descriptors of packages and of types have none.
C8_ContainerIffMember ==
  (pc = "done" /\ out.kind = "desc") =>
     LET d == stringToDefInfo(out.words)
     IN IF /\ ~isImport(nodes)
           /\ ResolvedObject # NoObject
           /\ d.Name = info.Object[ResolvedObject].name
           /\ ~IsTypeDescriptor(ResolvedObject)
        THEN d.Container # "" <=> IsMember(ResolvedObject)
        ELSE d.Container = ""

\* C9: every query ends in a descriptor or in the typed failure, never in a
\* crash.
C9_NoCrash ==
  pc = "done" => out.kind \in {"desc", "fatal"}

\* The leaf is an identifier with no selector around it that uses an object
\* found neither in the package's top scope nor in the universe scope, and
\* the object's type, one pointer dereferenced, is neither named nor basic.
UsesUnnamedTypedLocal ==
  /\ ~isImport(nodes)
  /\ kindAt(nodes, 0) = "Ident"
  /\ selXOf(nodes) = 0
  /\ DefOf(nodes[1]) = NoObject
  /\ UseOf(nodes[1]) # NoObject
  /\ LET o == UseOf(nodes[1])
     IN /\ info.Object[o].class # "PkgName"
        /\ ~isFieldUse(o)
        /\ PkgScopeLookup(file[nodes[1]].Name) # o
        /\ UniverseLookup(file[nodes[1]].Name) # o
        /\ typeName(dereferenceType(info.Object[o].type)).r = "no"

\* C12: for a leaf that uses a symbol S with no enclosing selector, S found
\* neither in the package top scope nor in the universe scope and the type
\* fallback on S's type failing, the resolver does not fail: it returns the
\* descriptor {Package: S's package, Name: S's name}.
C12_FallbackToSymbol ==
  (pc = "done" /\ UsesUnnamedTypedLocal) =>
     /\ out.kind = "desc"
     /\ stringToDefInfo(out.words) =
          Descriptor(info.Object[UseOf(nodes[1])].pkg, "", info.Object[UseOf(nodes[1])].name)

\* The runs of the pipeline the query has made when it ends in a descriptor:
\* each run prints one line.  A run that goes back to repeat takes one from
\* the -debug.repetitions flag, so the value N the flag was given is the
\* number of runs made plus what is left of the flag above 1.
RunsMade == printed
RepetitionsAsked == printed + repetitions - 1

\* C13: with the repetition count set to N >= 1, every query that ends in a
\* descriptor has run the whole pipeline exactly N times, whichever case
\* produced the descriptor.
C13_RunsNTimes ==
  (pc = "done" /\ out.kind = "desc") => RunsMade = RepetitionsAsked

(***************************************************************************)
(* Properties of the importer.                                             *)
(***************************************************************************)
\* C14: the cache of source-checked packages is shared by all the runs of a
\* process and is append-only: a key that has an entry keeps one in every
\* later state of the process, the later runs included.
C14_AppendOnly ==
  [][\A k \in Keys : cached[k] # NoPackage => cached'[k] # NoPackage]_vars

\* The step is a call of ImportFrom on the sourceImporterFrom that got past
\* the system importer, and the entry of its key was present and incomplete.
StaleCall ==
  /\ pc = "check" /\ pc' = "check" /\ importsrc
  /\ ret'.step \in {"parse error", "no suitable package", "checked"}
  /\ cached[ret'.key] # NoPackage
  /\ ~cached[ret'.key].complete

\* The step is a call of ImportFrom that returned the entry of the cache.
HitCall ==
  /\ pc = "check" /\ pc' = "check" /\ importsrc
  /\ ret'.step = "hit"

\* C15 as stated: ImportFrom returns a package from the cache only if the
\* entry reports itself complete; an incomplete entry is never returned, the
\* source-level check is run again, and after the call the entry of the key
\* is the result of the new check and no longer the stale package, whatever
\* the outcome.
C15_StaleReplaced ==
  [][ /\ HitCall => (cached[ret'.key].complete /\ ret'.pkg = cached[ret'.key])
      /\ StaleCall => /\ ret'.pkg # cached[ret'.key]
                      /\ ret'.step = "checked"
                      /\ cached'[ret'.key] # cached[ret'.key]
                      /\ cached'[ret'.key] = ret'.pkg ]_vars

\* C15 as amended: ImportFrom returns a package from the cache only if the
\* entry reports itself complete; an incomplete entry is never returned.
\* The source directory is parsed again: when the parse gives a suitable
\* package the check is run again and the package it returns, complete or
\* not, replaces the entry; when the parse fails, finds no suitable package,
\* or the check returns no package, the call returns no package and the
\* incomplete entry stays in the cache.
C15_StaleNeverReturned ==
  [][ /\ HitCall => (cached[ret'.key].complete /\ ret'.pkg = cached[ret'.key])
      /\ StaleCall =>
           /\ ret'.pkg # cached[ret'.key]
           /\ IF ret'.step = "checked" /\ ret'.pkg # NoPackage
              THEN /\ cached'[ret'.key] = ret'.pkg
                   /\ ret'.pkg.gen = checks'
                   /\ checks' = checks + 1
              ELSE /\ cached'[ret'.key] = cached[ret'.key]
                   /\ ret'.pkg = NoPackage ]_vars

\* A call has checked a key again whose entry of the first check was
\* incomplete: the entry is the package of the later check.
C15_Witness ==
  /\ pc = "check"
  /\ ret.step = "checked"
  /\ ret.was # NoPackage
  /\ ~ret.was.complete
  /\ ret.pkg # NoPackage
  /\ ret.pkg # ret.was
  /\ cached[ret.key] = ret.pkg

(***************************************************************************)
(* Properties of the path.                                                 *)
(***************************************************************************)
\* The path of the query has been computed.
Located == pc \in {"import", "resolve", "done"}

\* Node c is a subtree among the children childrenOf lists for node n.
IsChildOf(c, n) ==
  \E i \in 1..Len(childrenOf(n)) : ~childrenOf(n)[i].tok /\ childrenOf(n)[i].id = c

\* Node n is the innermost node that holds the byte of the query: it holds
\* the byte and none of its children does.
Innermost(n) ==
  /\ OnNode(n)
  /\ \A i \in 1..Len(childrenOf(n)) :
        childrenOf(n)[i].tok \/ ~OnNode(childrenOf(n)[i].id)

\* C16 as stated: for every offset the path is non-empty and ordered
\* root-first: its first element is the file node, each later element is a
\* child of the one before it, and its last element is the innermost node
\* that contains the offset.
C16_RootFirst ==
  Located =>
     /\ Len(nodes) >= 1
     /\ nodes[1] = Root
     /\ \A i \in 2..Len(nodes) : IsChildOf(nodes[i], nodes[i - 1])
     /\ OnNode(Root) => Innermost(nodes[Len(nodes)])

\* C16 as amended: for every offset the path is non-empty and ordered
\* innermost-first: its last element is the file node, each element but the
\* last is a child (as childrenOf lists them) of the one after it, and, when
\* the byte of the query lies in the file node, its first element is the
\* innermost node that contains the byte; for a byte outside the file node
\* the path is the file node alone.
C16_InnermostFirst ==
  Located =>
     /\ Len(nodes) >= 1
     /\ nodes[Len(nodes)] = Root
     /\ \A i \in 1..(Len(nodes) - 1) : IsChildOf(nodes[i], nodes[i + 1])
     /\ IF OnNode(Root) THEN Innermost(nodes[1]) ELSE nodes = << Root >>

\* The path of a query on the name of a parameter of a function declaration:
\* the identifier first, the file last, the FuncDecl the parent of the
\* parameter list.
C16_Witness ==
  /\ pc = "done"
  /\ Len(nodes) = 5
  /\ kindAt(nodes, 0) = "Ident"
  /\ kindAt(nodes, 1) = "Field"
  /\ kindAt(nodes, 2) = "FieldList"
  /\ kindAt(nodes, 3) = "FuncDecl"
  /\ nodes[5] = Root
  /\ Innermost(nodes[1])

\* The children childrenOf gives for node n do not overlap, and each lies
\* within [Pos, End) of n.
ChildrenDisjoint(n) ==
  \A i, j \in 1..Len(childrenOf(n)) :
     i < j => childrenOf(n)[i].end <= childrenOf(n)[j].pos

ChildrenWithin(n) ==
  \A i \in 1..Len(childrenOf(n)) :
     file[n].pos <= childrenOf(n)[i].pos /\ childrenOf(n)[i].end <= file[n].end

\* C17: for every node the locator has visited, of whatever kind, the child
\* list computed by childrenOf (subtrees and token leaves, sorted by start)
\* has no two children that overlap, and every child, token leaves
\* included, lies within the parent's interval [Pos, End).
C17_ChildrenDisjointWithin ==
  Located =>
     \A i \in 1..Len(nodes) : ChildrenDisjoint(nodes[i]) /\ ChildrenWithin(nodes[i])

\* The composite literals on the path whose written type name is the
\* Container of the descriptor the query has returned.
ContainerLits ==
  {i \in 1..Len(nodes) :
     /\ file[nodes[i]].kind = "CompositeLit"
     /\ litTypeName(nodes[i]) # ""
     /\ litTypeName(nodes[i]) = stringToDefInfo(out.words).Container}

\* The leaf is the key of a key-value element of the literal at place i of
\* the path.
LeafIsKeyOf(i) ==
  /\ i = 3
  /\ kindAt(nodes, 0) = "Ident"
  /\ kindAt(nodes, 1) = "KeyValueExpr"
  /\ file[nodes[2]].kids[1] = nodes[1]

\* C18: whenever the resolver returns, for a leaf that uses a struct field,
\* a descriptor whose Container is the type name of a composite literal
\* around the leaf, the leaf is the key of a key-value element of that
\* literal; a field identifier elsewhere inside the literal is never given
\* the literal's type as Container.
C18_KeyOfLiteral ==
  ( /\ pc = "done"
    /\ out.kind = "desc"
    /\ ~isImport(nodes)
    /\ DefOf(identXOf(nodes)) = NoObject
    /\ UseOf(identXOf(nodes)) # NoObject
    /\ isFieldUse(UseOf(identXOf(nodes))) ) =>
        \A i \in ContainerLits :
           \/ LeafIsKeyOf(i)
           \/ /\ selXOf(nodes) # 0
              /\ selXOf(nodes) \in DOMAIN info.Selections
              /\ out = selectionCase(info.Selections[selXOf(nodes)],
                                     file[identXOf(nodes)].Name,
                                     info.Object[UseOf(identXOf(nodes))].type)

\* The leaf defines an object and the descriptor returned is {Package: the
\* object's package, Name: the object's own name} with no Container, and
\* is not the descriptor of the object's type (an embedded field bears the
\* name of its type).
DefinedUnderOwnName ==
  /\ pc = "done"
  /\ out.kind = "desc"
  /\ ~isImport(nodes)
  /\ identXOf(nodes) # 0
  /\ DefOf(identXOf(nodes)) # NoObject
  /\ ~IsTypeDescriptor(DefOf(identXOf(nodes)))
  /\ stringToDefInfo(out.words) =
       Descriptor(info.Object[DefOf(identXOf(nodes))].pkg, "",
                  info.Object[DefOf(identXOf(nodes))].name)

\* C19: a leaf that defines a symbol is described as {Package, its own
\* Name} with no Container only if the symbol is declared in the package's
\* top scope; the definition of a variable or parameter declared inside a
\* function is never reported under its own name, whatever its type.
C19_OwnNameOnlyTopScope ==
  DefinedUnderOwnName => info.Object[DefOf(identXOf(nodes))].scope = "pkg"

\* C20: every access main makes into the path by position is within bounds:
\* the path is not empty when nodes[0] is read; nodes[1] exists whenever the
\* leaf is an identifier that defines an object; nodes[2] exists whenever
\* the leaf uses a struct field; nodes[4] exists whenever the leaf defines
\* an object and nodes[1] is a Field.
C20_AccessesInBounds ==
  Located =>
     /\ Len(nodes) >= 1
     /\ (identXOf(nodes) # 0 /\ ~isImport(nodes)) =>
          /\ DefOf(identXOf(nodes)) # NoObject => Len(nodes) >= 2
          /\ (DefOf(identXOf(nodes)) # NoObject /\ kindAt(nodes, 1) = "Field") =>
                Len(nodes) >= 5
          /\ ( /\ DefOf(identXOf(nodes)) = NoObject
               /\ UseOf(identXOf(nodes)) # NoObject
               /\ isFieldUse(UseOf(identXOf(nodes))) ) => Len(nodes) >= 3

\* func (t *T) M1: the query on the receiver t, whose path has five nodes,
\* has read nodes[1], the Field, and nodes[4], the file, and answered p T.
C20_Witness ==
  /\ pc = "done"
  /\ Len(nodes) = 5
  /\ kindAt(nodes, 0) = "Ident"
  /\ DefOf(nodes[1]) # NoObject
  /\ info.Object[DefOf(nodes[1])].scope = "local"
  /\ kindAt(nodes, 1) = "Field"
  /\ kindAt(nodes, 4) = "File"
  /\ out = Desc(<< "p", "T" >>)

=============================================================================
